---- MODULE Spec2Model ----
(***************************************************************************)
(* Steam games discovery: the presentation layer (Home, DiscoveryGrid),    *)
(* the Next.js proxy routes and the recommendation engine behind them.     *)
(*                                                                         *)
(* Spec     the two discovery pages: like/dislike history, the requests    *)
(*          they issue and the responses they handle.                      *)
(* SpecApi  one request at a time through a proxy route to the engine.     *)
(***************************************************************************)
EXTENDS Integers, Sequences, FiniteSets, TLC

(***************************************************************************)
(* Bounds of the model.                                                    *)
(***************************************************************************)
\* longest like/dislike history (liked plus disliked) the pages build up
MaxHist == 2
\* most requests a page has outstanding at once
MaxInFlight == 2
\* longest stored list a page is loaded with
MaxStored == 1

\* the games held by the item store, and a game id no item of the store has
StoreIds == {1, 2}
UnknownIds == {3}
GameIds == StoreIds \cup UnknownIds
NoGame == 0

VARIABLES
    page,            \* which page is mounted: "home" | "grid"
    games,           \* games displayed (ids)
    likedGames,      \* like history, oldest first
    dislikedGames,   \* dislike history, oldest first
    loading,         \* Home.loading / DiscoveryGrid.isLoading
    error,           \* Home.error is non-empty
    discoveryMode,   \* DiscoveryGrid: "preferences" | "context"
    contextGameId,   \* DiscoveryGrid: seed of the context mode, or NoGame
    contextGameName, \* DiscoveryGrid: the game whose name is shown, or NoGame
    shownFor,        \* the failed context seed whose fallback filled `games`, or NoGame
    inflight,        \* requests sent and not yet answered
    api              \* SpecApi: the request being served by a proxy route

uiVars == <<page, games, likedGames, dislikedGames, loading, error,
            discoveryMode, contextGameId, contextGameName, shownFor,
            inflight>>
vars == <<page, games, likedGames, dislikedGames, loading, error,
          discoveryMode, contextGameId, contextGameName, shownFor,
          inflight, api>>

(***************************************************************************)
(* Sequences as the code uses them.                                        *)
(***************************************************************************)
Range(s) == {s[i] : i \in 1..Len(s)}

\* Array.prototype.includes
Includes(s, x) == x \in Range(s)

\* Array.prototype.filter(id => id !== x)
RECURSIVE Without(_, _)
Without(s, x) ==
    IF s = <<>> THEN <<>>
    ELSE IF Head(s) = x THEN Without(Tail(s), x)
    ELSE <<Head(s)>> \o Without(Tail(s), x)

NoDup(s) == \A i, j \in 1..Len(s) : i # j => s[i] # s[j]

SeqsUpTo(S, n) == UNION {[1..k -> S] : k \in 0..n}

\* the lists a page can find in local storage: no duplicate, no shared id
StoredLists ==
    {p \in SeqsUpTo(StoreIds, MaxStored) \X SeqsUpTo(StoreIds, MaxStored) :
        /\ NoDup(p[1]) /\ NoDup(p[2])
        /\ Range(p[1]) \cap Range(p[2]) = {}}

(***************************************************************************)
(* Requests of the pages.  fn is the function awaiting the response, by    *)
(* the handler that started it, game the game that handler was about.      *)
(* closLiked/closDisliked are likedGames/dislikedGames as the closure of   *)
(* the awaiting function sees them.                                        *)
(***************************************************************************)
Request(fn, by, game, liked, disliked, seed, excluded, fallbackOf) ==
    [fn |-> fn, by |-> by, game |-> game,
     liked_ids |-> liked, disliked_ids |-> disliked,
     gameId |-> seed, excludedIds |-> excluded,
     closLiked |-> liked, closDisliked |-> disliked,
     fallbackOf |-> fallbackOf]

NoShown == NoGame
Shown(r) == r.fallbackOf

CanSend == Cardinality(inflight) < MaxInFlight

\* what the engine may return for a preference request: with no preference
\* a sample of the store, otherwise store items outside the excluded ids
PrefsData(r) ==
    IF r.liked_ids = <<>> /\ r.disliked_ids = <<>>
    THEN SUBSET StoreIds
    ELSE SUBSET (StoreIds \ (Range(r.liked_ids) \cup Range(r.disliked_ids)))

\* what the engine may return for a context request on a seed of the store
ContextData(r) == SUBSET (StoreIds \ Range(r.excludedIds))

(***************************************************************************)
(* Home (the discovery home page).                                         *)
(***************************************************************************)
\* fetchRandomGames as it would be if it sent the stored history
RandomGamesRequestWithHistory(by) ==
    Request("fetchRandomGames", by, NoGame, likedGames, dislikedGames, NoGame,
            <<>>, NoGame)

\* fetchRandomGames up to its await: the request it sends
RandomGamesRequest(by) ==
    Request("fetchRandomGames", by, NoGame, <<>>, <<>>, NoGame, <<>>, NoGame)

\* fetchRecommendations(liked, disliked) up to its await
RecommendationsRequest(by, g, liked, disliked) ==
    Request("fetchRecommendations", by, g, liked, disliked, NoGame, <<>>, NoGame)

\* the page is (re)loaded: state is rebuilt from local storage and the mount
\* effect starts fetchRandomGames; requests of the unloaded page are dropped
HomeMounted(liked, disliked) ==
    /\ page' = "home"
    /\ games' = {}
    /\ likedGames' = liked
    /\ dislikedGames' = disliked
    /\ loading' = TRUE
    /\ error' = FALSE
    /\ discoveryMode' = "preferences"
    /\ contextGameId' = NoGame
    /\ contextGameName' = NoGame
    /\ shownFor' = NoShown
    /\ inflight' = {RandomGamesRequest("mount")}

HomeHandleLike(g) ==
    /\ page = "home" /\ ~loading /\ ~error /\ g \in games
    /\ CanSend
    /\ Len(likedGames) + Len(dislikedGames) < MaxHist
    /\ likedGames' = Append(likedGames, g)
    /\ games' = games \ {g}
    /\ loading' = TRUE
    /\ error' = FALSE
    /\ inflight' = inflight \cup
          {RecommendationsRequest("like", g, likedGames', dislikedGames)}
    /\ UNCHANGED <<page, dislikedGames, discoveryMode, contextGameId,
                   contextGameName, shownFor, api>>

HomeHandleDislike(g) ==
    /\ page = "home" /\ ~loading /\ ~error /\ g \in games
    /\ CanSend
    /\ Len(likedGames) + Len(dislikedGames) < MaxHist
    /\ dislikedGames' = Append(dislikedGames, g)
    /\ games' = games \ {g}
    /\ loading' = TRUE
    /\ error' = FALSE
    /\ inflight' = inflight \cup
          {RecommendationsRequest("dislike", g, likedGames, dislikedGames')}
    /\ UNCHANGED <<page, likedGames, discoveryMode, contextGameId,
                   contextGameName, shownFor, api>>

\* fetchRecommendations after its await, response OK
HomeRecommendationsOk(r, data) ==
    /\ page = "home" /\ r \in inflight /\ r.fn = "fetchRecommendations"
    /\ data \in PrefsData(r)
    /\ games' = data
    /\ shownFor' = Shown(r)
    /\ loading' = FALSE
    /\ inflight' = inflight \ {r}
    /\ UNCHANGED <<page, likedGames, dislikedGames, error, discoveryMode,
                   contextGameId,
                   contextGameName, api>>

\* fetchRecommendations after its await, request failed: the catch block
\* starts fetchRandomGames (setLoading(true), setError('')), then the
\* finally block runs setLoading(false)
HomeRecommendationsFail(r) ==
    /\ page = "home" /\ r \in inflight /\ r.fn = "fetchRecommendations"
    /\ inflight' = (inflight \ {r}) \cup {RandomGamesRequest("fallback")}
    /\ error' = FALSE
    /\ loading' = FALSE
    /\ UNCHANGED <<page, games, likedGames, dislikedGames, discoveryMode,
                   contextGameId,
                   contextGameName, shownFor, api>>

\* fetchRandomGames after its await, response OK
HomeRandomOk(r, data) ==
    /\ page = "home" /\ r \in inflight /\ r.fn = "fetchRandomGames"
    /\ data \in PrefsData(r)
    /\ games' = data
    /\ shownFor' = Shown(r)
    /\ loading' = FALSE
    /\ inflight' = inflight \ {r}
    /\ UNCHANGED <<page, likedGames, dislikedGames, error, discoveryMode,
                   contextGameId,
                   contextGameName, api>>

\* fetchRandomGames after its await, request failed, as it would be if its
\* catch block tried again
HomeRandomFailRetries(r) ==
    /\ page = "home" /\ r \in inflight /\ r.fn = "fetchRandomGames"
    /\ error' = TRUE
    /\ loading' = FALSE
    /\ inflight' = (inflight \ {r}) \cup {RandomGamesRequest("retry")}
    /\ UNCHANGED <<page, games, likedGames, dislikedGames, discoveryMode,
                   contextGameId,
                   contextGameName, shownFor, api>>

\* fetchRandomGames after its await, request failed
HomeRandomFail(r) ==
    /\ page = "home" /\ r \in inflight /\ r.fn = "fetchRandomGames"
    /\ error' = TRUE
    /\ loading' = FALSE
    /\ inflight' = inflight \ {r}
    /\ UNCHANGED <<page, games, likedGames, dislikedGames, discoveryMode,
                   contextGameId,
                   contextGameName, shownFor, api>>

\* the Clear Preferences buttons are rendered while a history exists
HomeHandleResetHistory ==
    /\ page = "home"
    /\ likedGames # <<>> \/ dislikedGames # <<>>
    /\ CanSend
    /\ likedGames' = <<>>
    /\ dislikedGames' = <<>>
    /\ loading' = TRUE
    /\ error' = FALSE
    /\ inflight' = inflight \cup {RandomGamesRequest("reset")}
    /\ UNCHANGED <<page, games, discoveryMode, contextGameId,
                   contextGameName, shownFor, api>>

HomeHandleRemoveFromLiked(g) ==
    /\ page = "home" /\ Includes(likedGames, g)
    /\ likedGames' = Without(likedGames, g)
    /\ UNCHANGED <<page, games, dislikedGames, loading, error, discoveryMode,
                   contextGameId,
                   contextGameName, shownFor, inflight, api>>

HomeHandleRemoveFromDisliked(g) ==
    /\ page = "home" /\ Includes(dislikedGames, g)
    /\ dislikedGames' = Without(dislikedGames, g)
    /\ UNCHANGED <<page, games, likedGames, loading, error, discoveryMode,
                   contextGameId,
                   contextGameName, shownFor, inflight, api>>

\* window.location.href = ...: the page reloads with the saved history
HomeHandleRefreshGames ==
    /\ page = "home"
    /\ HomeMounted(likedGames, dislikedGames)
    /\ UNCHANGED api

(***************************************************************************)
(* DiscoveryGrid on the discovery page.  likedGames and dislikedGames are  *)
(* read inside fetchDiscoveryGames and fetchContextGames from the closure  *)
(* of the render in which the handler was created: a setLikedGames or      *)
(* setDislikedGames made earlier in the same handler is not visible there. *)
(***************************************************************************)
\* fetchDiscoveryGames(action, gameId) up to its await
DiscoveryRequest(action, g, liked, disliked, fallbackOf) ==
    Request("fetchDiscoveryGames", action, g, liked, disliked, NoGame, <<>>,
            fallbackOf)

\* fetchContextGames(gameId) up to its await
ContextRequest(by, g, seed, liked, disliked) ==
    Request("fetchContextGames", by, g, liked, disliked, seed,
            <<seed>> \o liked \o disliked, NoGame)

\* DiscoveryPage.fetchInitialGames: GET random-games
InitialGamesRequest ==
    Request("fetchInitialGames", "mount", NoGame, <<>>, <<>>, NoGame, <<>>, NoGame)

\* the discovery page is (re)loaded: DiscoveryGrid mounts with no initial
\* games and loading = true, and its mount effect starts fetchDiscoveryGames
GridMounted(liked, disliked) ==
    /\ page' = "grid"
    /\ games' = {}
    /\ likedGames' = liked
    /\ dislikedGames' = disliked
    /\ loading' = TRUE
    /\ error' = FALSE
    /\ discoveryMode' = "preferences"
    /\ contextGameId' = NoGame
    /\ contextGameName' = NoGame
    /\ shownFor' = NoShown
    /\ inflight' = {InitialGamesRequest,
                    DiscoveryRequest("refresh", NoGame, liked, disliked, NoGame)}

\* the part of fetchDiscoveryGames before its await
GridStartDiscovery(action, g, liked, disliked, fallbackOf, pending) ==
    /\ loading' = TRUE
    /\ discoveryMode' = "preferences"
    /\ contextGameId' = NoGame
    /\ contextGameName' = NoGame
    /\ inflight' = pending \cup
          {DiscoveryRequest(action, g, liked, disliked, fallbackOf)}

\* the part of fetchContextGames before its await as it would be if it
\* set the mode only when the game is among the displayed games
GridStartContextModeIfShown(by, g, seed, liked, disliked) ==
    /\ loading' = TRUE
    /\ discoveryMode' = IF seed \in games THEN "context" ELSE discoveryMode
    /\ contextGameId' = seed
    /\ contextGameName' = IF seed \in games THEN seed ELSE contextGameName
    /\ inflight' = inflight \cup {ContextRequest(by, g, seed, liked, disliked)}

\* the part of fetchContextGames before its await
GridStartContext(by, g, seed, liked, disliked) ==
    /\ loading' = TRUE
    /\ discoveryMode' = "context"
    /\ contextGameId' = seed
    /\ contextGameName' = IF seed \in games THEN seed ELSE contextGameName
    /\ inflight' = inflight \cup {ContextRequest(by, g, seed, liked, disliked)}

\* DiscoveryPage.fetchInitialGames answered: the [initialGames] effect runs
GridInitialGamesOk(r, data) ==
    /\ page = "grid" /\ r \in inflight /\ r.fn = "fetchInitialGames"
    /\ data \in SUBSET StoreIds
    /\ IF data # {}
       THEN /\ games' = data
            /\ shownFor' = Shown(r)
            /\ loading' = FALSE
            /\ inflight' = inflight \ {r}
            /\ UNCHANGED <<discoveryMode, contextGameId,
                   contextGameName>>
       ELSE /\ GridStartDiscovery("refresh", NoGame, likedGames, dislikedGames,
                                  NoGame, inflight \ {r})
            /\ UNCHANGED <<games, shownFor>>
    /\ UNCHANGED <<page, likedGames, dislikedGames, error, api>>

GridInitialGamesFail(r) ==
    /\ page = "grid" /\ r \in inflight /\ r.fn = "fetchInitialGames"
    /\ inflight' = inflight \ {r}
    /\ UNCHANGED <<page, games, likedGames, dislikedGames, loading, error,
                   discoveryMode, contextGameId,
                   contextGameName, shownFor, api>>

\* the cards are rendered while isLoading is false
GridHandleLike(g) ==
    /\ page = "grid" /\ ~loading /\ g \in games
    /\ ~Includes(likedGames, g)
    /\ CanSend
    /\ Len(likedGames) + Len(dislikedGames) < MaxHist
    /\ likedGames' = Append(likedGames, g)
    /\ dislikedGames' = IF Includes(dislikedGames, g)
                        THEN Without(dislikedGames, g) ELSE dislikedGames
    /\ IF discoveryMode = "context" /\ contextGameId # NoGame
       THEN GridStartContext("like", g, contextGameId, likedGames, dislikedGames)
       ELSE GridStartDiscovery("like", g, likedGames, dislikedGames, NoGame,
                               inflight)
    /\ UNCHANGED <<page, games, error, shownFor, api>>

GridHandleDislike(g) ==
    /\ page = "grid" /\ ~loading /\ g \in games
    /\ ~Includes(dislikedGames, g)
    /\ CanSend
    /\ Len(likedGames) + Len(dislikedGames) < MaxHist
    /\ dislikedGames' = Append(dislikedGames, g)
    /\ likedGames' = IF Includes(likedGames, g)
                     THEN Without(likedGames, g) ELSE likedGames
    /\ IF discoveryMode = "context" /\ contextGameId # NoGame
       THEN GridStartContext("dislike", g, contextGameId, likedGames, dislikedGames)
       ELSE GridStartDiscovery("dislike", g, likedGames, dislikedGames, NoGame,
                               inflight)
    /\ UNCHANGED <<page, games, error, shownFor, api>>

\* handleFindSimilar(game): no control of the render is bound to it, so the
\* game is whatever its caller holds, an id the store has lost included
GridHandleFindSimilar(g) ==
    /\ page = "grid" /\ ~loading /\ g \in GameIds
    /\ CanSend
    /\ GridStartContext("similar", g, g, likedGames, dislikedGames)
    /\ UNCHANGED <<page, games, likedGames, dislikedGames, error, shownFor, api>>

\* the Reset Preferences button is disabled while isLoading
GridHandleReset ==
    /\ page = "grid" /\ ~loading
    /\ CanSend
    /\ likedGames' = <<>>
    /\ dislikedGames' = <<>>
    /\ GridStartDiscovery("reset", NoGame, likedGames, dislikedGames, NoGame,
                          inflight)
    /\ UNCHANGED <<page, games, error, shownFor, api>>

\* the Back to Recommendations button, shown in context mode with a name
GridBackToRecommendations ==
    /\ page = "grid" /\ ~loading
    /\ discoveryMode = "context" /\ contextGameName # NoGame
    /\ CanSend
    /\ GridStartDiscovery("refresh", NoGame, likedGames, dislikedGames, NoGame,
                          inflight)
    /\ UNCHANGED <<page, games, likedGames, dislikedGames, error, shownFor, api>>

\* handleRefresh: window.location.href = ...: the page reloads
GridHandleRefresh ==
    /\ page = "grid" /\ ~loading
    /\ GridMounted(likedGames, dislikedGames)
    /\ UNCHANGED api

\* fetchDiscoveryGames after its await, response OK
GridDiscoveryOk(r, data) ==
    /\ page = "grid" /\ r \in inflight /\ r.fn = "fetchDiscoveryGames"
    /\ data \in PrefsData(r)
    /\ games' = data
    /\ shownFor' = Shown(r)
    /\ loading' = FALSE
    /\ inflight' = inflight \ {r}
    /\ UNCHANGED <<page, likedGames, dislikedGames, error, discoveryMode,
                   contextGameId,
                   contextGameName, api>>

\* fetchDiscoveryGames after its await, request failed
GridDiscoveryFail(r) ==
    /\ page = "grid" /\ r \in inflight /\ r.fn = "fetchDiscoveryGames"
    /\ loading' = FALSE
    /\ inflight' = inflight \ {r}
    /\ UNCHANGED <<page, games, likedGames, dislikedGames, error, discoveryMode,
                   contextGameId,
                   contextGameName, shownFor, api>>

\* fetchContextGames after its await, response OK (the store has the seed)
GridContextOk(r, data) ==
    /\ page = "grid" /\ r \in inflight /\ r.fn = "fetchContextGames"
    /\ r.gameId \in StoreIds
    /\ data \in ContextData(r)
    /\ games' = data
    /\ shownFor' = Shown(r)
    /\ loading' = FALSE
    /\ inflight' = inflight \ {r}
    /\ UNCHANGED <<page, likedGames, dislikedGames, error, discoveryMode,
                   contextGameId,
                   contextGameName, api>>

\* fetchContextGames after its await, request failed: the catch block starts
\* fetchDiscoveryGames() with the lists of its closure, then the finally
\* block runs setIsLoading(false)
GridContextFail(r) ==
    /\ page = "grid" /\ r \in inflight /\ r.fn = "fetchContextGames"
    /\ discoveryMode' = "preferences"
    /\ contextGameId' = NoGame
    /\ contextGameName' = NoGame
    /\ inflight' = (inflight \ {r}) \cup
          {DiscoveryRequest("refresh", NoGame, r.closLiked, r.closDisliked,
                            r.gameId)}
    /\ loading' = FALSE
    /\ UNCHANGED <<page, games, likedGames, dislikedGames, error, shownFor, api>>

(***************************************************************************)
(* The pages: specification Spec.                                          *)
(***************************************************************************)
NoApi == [phase |-> "idle"]

Init ==
    /\ \E p \in StoredLists :
          \/ /\ page = "home"
             /\ likedGames = p[1] /\ dislikedGames = p[2]
             /\ inflight = {RandomGamesRequest("mount")}
          \/ /\ page = "grid"
             /\ likedGames = p[1] /\ dislikedGames = p[2]
             /\ inflight = {InitialGamesRequest,
                            DiscoveryRequest("refresh", NoGame, p[1], p[2], NoGame)}
    /\ games = {}
    /\ loading = TRUE
    /\ error = FALSE
    /\ discoveryMode = "preferences"
    /\ contextGameId = NoGame
    /\ contextGameName = NoGame
    /\ shownFor = NoShown
    /\ api = NoApi

Next ==
    \/ \E g \in StoreIds : HomeHandleLike(g)
    \/ \E g \in StoreIds : HomeHandleDislike(g)
    \/ \E r \in inflight : \E data \in SUBSET StoreIds : HomeRecommendationsOk(r, data)
    \/ \E r \in inflight : HomeRecommendationsFail(r)
    \/ \E r \in inflight : \E data \in SUBSET StoreIds : HomeRandomOk(r, data)
    \/ \E r \in inflight : HomeRandomFail(r)
    \/ HomeHandleResetHistory
    \/ \E g \in StoreIds : HomeHandleRemoveFromLiked(g)
    \/ \E g \in StoreIds : HomeHandleRemoveFromDisliked(g)
    \/ HomeHandleRefreshGames
    \/ \E r \in inflight : \E data \in SUBSET StoreIds : GridInitialGamesOk(r, data)
    \/ \E r \in inflight : GridInitialGamesFail(r)
    \/ \E g \in StoreIds : GridHandleLike(g)
    \/ \E g \in StoreIds : GridHandleDislike(g)
    \/ \E g \in GameIds : GridHandleFindSimilar(g)
    \/ GridHandleReset
    \/ GridBackToRecommendations
    \/ GridHandleRefresh
    \/ \E r \in inflight : \E data \in SUBSET StoreIds : GridDiscoveryOk(r, data)
    \/ \E r \in inflight : GridDiscoveryFail(r)
    \/ \E r \in inflight : \E data \in SUBSET StoreIds : GridContextOk(r, data)
    \/ \E r \in inflight : GridContextFail(r)

Spec == Init /\ [][Next]_vars

(***************************************************************************)
(* The recommendation engine behind the proxy routes.  The store holds the *)
(* items 1..n; an id above n names no item.                                *)
(***************************************************************************)
\* largest store
MaxItems == 10
\* largest limit and offset a caller of the search route asks for
MaxLimit == 5
MaxOffset == 12
\* random seeds / nonces drawn by the pages, the proxy and the engine
MaxSeed == 2
\* last page the paginated search example asks for
MaxPage == 2

\* documented defaults of the engine's endpoints
SearchDefaultLimit == 10
DiscoverDefaultLimit == 9

Seeds == 1..MaxSeed
\* the stores considered: empty, small, and the largest
StoreSizes == {0, 2, 3, MaxItems}
Stores == {1..n : n \in StoreSizes}

\* search texts, as sequences of characters
Texts == {<<>>, <<" ">>, <<"r">>, <<"s", " ">>}

\* a JSON object is a record whose optional fields may be left out
Get(rec, field, default) == IF field \in DOMAIN rec THEN rec[field] ELSE default
Opt(field, present, v) == IF present THEN field :> v ELSE <<>>

RECURSIVE Take(_, _)
Take(s, k) ==
    IF k <= 0 \/ s = <<>> THEN <<>> ELSE <<Head(s)>> \o Take(Tail(s), k - 1)

RECURSIVE Drop(_, _)
Drop(s, k) ==
    IF k <= 0 \/ s = <<>> THEN s ELSE Drop(Tail(s), k - 1)

\* str.strip()
RECURSIVE TrimLeft(_)
TrimLeft(t) ==
    IF t # <<>> /\ Head(t) = " " THEN TrimLeft(Tail(t)) ELSE t

RECURSIVE TrimRight(_)
TrimRight(t) ==
    IF t # <<>> /\ t[Len(t)] = " " THEN TrimRight(SubSeq(t, 1, Len(t) - 1)) ELSE t

Trim(t) == TrimRight(TrimLeft(t))

\* an id list without its repeated ids, first occurrences kept
RECURSIVE Dedup(_)
Dedup(s) ==
    IF s = <<>> THEN <<>>
    ELSE <<Head(s)>> \o Dedup(Without(Tail(s), Head(s)))

\* similarity scores of the store, by item
DenseScore(text, id) == IF Trim(text) = <<"r">> THEN (id * 3) % 4 ELSE id % 3
SparseScore(text, id) == id % 2
Similarity(a, b) == IF a >= b THEN b - a ELSE a - b

RECURSIVE SumSimilarity(_, _)
SumSimilarity(id, examples) ==
    IF examples = <<>> THEN 0
    ELSE Similarity(id, Head(examples)) + SumSimilarity(id, Tail(examples))

\* hits in rank order: score descending, ties in store order
RECURSIVE Rank(_, _)
Rank(ids, score) ==
    IF ids = {} THEN <<>>
    ELSE LET best == CHOOSE x \in ids : \A y \in ids :
                         \/ score[x] > score[y]
                         \/ score[x] = score[y] /\ x <= y
         IN <<[id |-> best, score |-> score[best]]>> \o Rank(ids \ {best}, score)

\* responses of the engine
EngineError(kind, id) ==
    [ok |-> FALSE, error |-> kind, id |-> id, items |-> <<>>,
     total |-> 0, page |-> 0, page_size |-> 0, pages |-> 0]

EngineList(items) ==
    [ok |-> TRUE, error |-> "none", id |-> NoGame, items |-> items,
     total |-> Len(items), page |-> 0, page_size |-> 0, pages |-> 0]

\* Pager
paginate(items, limit, offset) ==
    [ok |-> TRUE, error |-> "none", id |-> NoGame,
     items |-> Take(Drop(items, offset), limit),
     total |-> Len(items),
     page |-> (offset \div limit) + 1,
     page_size |-> limit,
     pages |-> (Len(items) + limit - 1) \div limit]

\* the full ranked result of a text query: dense score, fused with the
\* sparse score when hybrid
TextRanking(store, q) ==
    LET text == Trim(q.query)
        hybrid == Get(q, "use_hybrid", TRUE)
        score == [id \in store |->
                     DenseScore(text, id) + IF hybrid THEN SparseScore(text, id) ELSE 0]
    IN  Rank(store, score)

\* TextQuery {text, limit, offset, hybrid}
TextSearch(store, q) ==
    LET limit == Get(q, "limit", SearchDefaultLimit)
        offset == Get(q, "offset", 0)
    IN  IF Trim(q.query) = <<>> THEN EngineError("EmptyQueryError", NoGame)
        ELSE IF limit <= 0 \/ offset < 0 THEN EngineError("InvalidParameter", NoGame)
        ELSE paginate(TextRanking(store, q), limit, offset)

\* SeedQuery {seed_id, limit, excluded_ids}: the seed is always excluded
SeedRecommend(store, q) ==
    LET limit == Get(q, "limit", DiscoverDefaultLimit)
        excluded == Range(Get(q, "excluded_ids", <<>>)) \cup {q.seed_id}
        score == [id \in store |-> Similarity(id, q.seed_id)]
    IN  IF limit <= 0 THEN EngineError("InvalidParameter", NoGame)
        ELSE IF q.seed_id \notin store THEN EngineError("UnknownItemError", q.seed_id)
        ELSE EngineList(Take(Rank(store \ excluded, score), limit))

\* the randomized sample of the empty-preference fallback: the store in
\* store order, shuffled by the seed, cut to the limit
Sample(store, seed, limit) ==
    LET all == Rank(store, [id \in store |-> 0])
        k == IF store = {} THEN 0 ELSE seed % Cardinality(store)
    IN  Take(Drop(all, k) \o Take(all, k), limit)

\* diversity factors a caller may send, in tenths: 0, 0.5 and 1
DiversityFactors == {0, 5, 10}

\* similarity of a candidate to the most similar item already selected
MaxSimilarity(id, selected) ==
    IF selected = <<>> THEN 0
    ELSE LET sims == {Similarity(id, selected[i].id) : i \in 1..Len(selected)}
         IN  CHOOSE m \in sims : \A x \in sims : m >= x

\* greedy maximal-marginal-relevance re-rank: the next item is the one of
\* best score less a penalty, factor times its similarity to the items
\* already selected; ties go to the earlier candidate
RECURSIVE Rerank(_, _, _)
Rerank(selected, candidates, factor) ==
    IF candidates = <<>> THEN selected
    ELSE LET value(i) == (10 - factor) * candidates[i].score
                         - factor * MaxSimilarity(candidates[i].id, selected)
             best == CHOOSE i \in 1..Len(candidates) :
                        \A j \in 1..Len(candidates) :
                            \/ value(i) > value(j)
                            \/ value(i) = value(j) /\ i <= j
         IN  Rerank(Append(selected, candidates[best]),
                    SubSeq(candidates, 1, best - 1)
                        \o SubSeq(candidates, best + 1, Len(candidates)),
                    factor)

\* the store's natural preference ranking: recommendation score biased
\* toward the positive and away from the negative examples
PreferenceRanking(store, q) ==
    LET positive == Dedup(Get(q, "positive_ids", <<>>))
        negative == Dedup(Get(q, "negative_ids", <<>>))
        excluded == Range(Get(q, "excluded_ids", <<>>))
        score == [id \in store |->
                     SumSimilarity(id, positive) - SumSimilarity(id, negative)]
    IN  Rank(store \ excluded, score)

\* PreferenceQuery {positive_ids, negative_ids, excluded_ids, limit,
\* diversity_factor, random_seed}; fresh is the seed the engine picks when
\* none is supplied
PreferenceDiscover(store, q, fresh) ==
    LET positive == Dedup(Get(q, "positive_ids", <<>>))
        negative == Dedup(Get(q, "negative_ids", <<>>))
        limit == Get(q, "limit", DiscoverDefaultLimit)
        seed == Get(q, "randomize", fresh)
        unknown == {id \in Range(positive) \cup Range(negative) : id \notin store}
        natural == PreferenceRanking(store, q)
    IN  IF limit <= 0 THEN EngineError("InvalidParameter", NoGame)
        ELSE IF Range(positive) \cap Range(negative) # {}
             THEN EngineError("InvalidParameter", NoGame)
        ELSE IF positive = <<>> /\ negative = <<>>
             THEN EngineList(Sample(store, seed, limit))
        ELSE IF unknown # {}
             THEN EngineError("UnknownItemError", CHOOSE id \in unknown : TRUE)
        ELSE IF "diversity_factor" \in DOMAIN q
             THEN EngineList(Take(Rerank(<<>>, natural, q.diversity_factor), limit))
        ELSE EngineList(Take(natural, limit))

\* the /discover endpoint: liked_ids and disliked_ids are the examples
DiscoverQuery(body) ==
    [positive_ids |-> Get(body, "liked_ids", <<>>),
     negative_ids |-> Get(body, "disliked_ids", <<>>)]
    @@ [f \in DOMAIN body \ {"liked_ids", "disliked_ids"} |-> body[f]]


(***************************************************************************)
(* Request bodies of the pages and the proxy routes that forward them.     *)
(***************************************************************************)
\* limit sent by Home and DiscoveryGrid, and the routes' default
PageLimit == 9
ProxyDefaultLimit == 9
\* limit sent by the Search page, page size of the paginated search example
SearchLimit == 10
pageSize == 10

\* JSON body of fetchRandomGames / fetchRecommendations / fetchDiscoveryGames
PrefsBody(r, randomSeed) ==
    [liked_ids |-> r.liked_ids, disliked_ids |-> r.disliked_ids,
     limit |-> PageLimit, randomize |-> randomSeed]

\* query string of fetchContextGames
ContextParams(r) ==
    [gameId |-> r.gameId, limit |-> PageLimit, excludedIds |-> r.excludedIds]

\* JSON body of Search.handleSearch
SearchBody(query) == [query |-> query, limit |-> SearchLimit]

\* searchGames(page) as it would be with 0-based pages: offset = page * pageSize
GameSearchBodyZeroBased(query, p) ==
    [query |-> query, limit |-> pageSize, offset |-> p * pageSize,
     use_hybrid |-> TRUE]

\* JSON body of the paginated search example, searchGames(page)
GameSearchBody(query, p) ==
    [query |-> query, limit |-> pageSize, offset |-> (p - 1) * pageSize,
     use_hybrid |-> TRUE]

\* any JSON body a caller posts to the search route
SearchRouteBodies ==
    {("query" :> t) @@ Opt("limit", lp, l) @@ Opt("offset", op, o)
                    @@ Opt("use_hybrid", hp, h) :
        t \in Texts, lp \in BOOLEAN, l \in 0..MaxLimit,
        op \in BOOLEAN, o \in 0..MaxOffset, hp \in BOOLEAN, h \in BOOLEAN}

\* any JSON body a caller posts to the discovery-preferences route with the
\* history of the page
PrefsRouteBodies ==
    {Opt("liked_ids", kp, likedGames) @@ Opt("disliked_ids", dp, dislikedGames)
        @@ Opt("limit", lp, l) @@ Opt("randomize", rp, randomSeed) :
        kp \in BOOLEAN, dp \in BOOLEAN, lp \in BOOLEAN, l \in {MaxLimit},
        rp \in BOOLEAN, randomSeed \in {MaxSeed}}

\* the discovery-preferences route as it would be if it excluded the liked
\* games only
PrefsApiRequestExcludesLiked(body, nonce) ==
    LET liked_ids == Get(body, "liked_ids", <<>>)
        disliked_ids == Get(body, "disliked_ids", <<>>)
        limit == Get(body, "limit", ProxyDefaultLimit)
    IN  [positive_ids |-> liked_ids, negative_ids |-> disliked_ids,
         excluded_ids |-> liked_ids,
         limit |-> limit, cache_buster |-> nonce]
        @@ Opt("randomize", "randomize" \in DOMAIN body, Get(body, "randomize", 0))

\* the discovery-preferences route as it would be if it overrode the
\* caller's randomize value with a value of its own
PrefsApiRequestFreshSeed(body, nonce) ==
    LET liked_ids == Get(body, "liked_ids", <<>>)
        disliked_ids == Get(body, "disliked_ids", <<>>)
        limit == Get(body, "limit", ProxyDefaultLimit)
    IN  [positive_ids |-> liked_ids, negative_ids |-> disliked_ids,
         excluded_ids |-> liked_ids \o disliked_ids,
         limit |-> limit, cache_buster |-> nonce, randomize |-> nonce]

\* discovery-preferences route: the request sent to the backend
PrefsApiRequest(body, nonce) ==
    LET liked_ids == Get(body, "liked_ids", <<>>)
        disliked_ids == Get(body, "disliked_ids", <<>>)
        limit == Get(body, "limit", ProxyDefaultLimit)
    IN  [positive_ids |-> liked_ids, negative_ids |-> disliked_ids,
         excluded_ids |-> liked_ids \o disliked_ids,
         limit |-> limit, cache_buster |-> nonce]
        @@ Opt("randomize", "randomize" \in DOMAIN body, Get(body, "randomize", 0))

\* any JSON body a caller posts to the discover route with the history of
\* the page
DiscoverRouteBodies ==
    {[liked_ids |-> likedGames, disliked_ids |-> dislikedGames]
        @@ Opt("limit", lp, l) @@ Opt("diversity_factor", dp, d) :
        lp \in BOOLEAN, l \in {1, MaxLimit}, dp \in BOOLEAN, d \in DiversityFactors}

\* the discover route as it would be if it filled in the documented default
\* with body.diversity_factor || 0.5
DiscoverForwardDefaultDiversity(body) ==
    [diversity_factor |->
        IF Get(body, "diversity_factor", 0) = 0 THEN 5 ELSE body.diversity_factor]
    @@ body

\* discover route: the body sent to the backend is the body received
DiscoverForward(body) == body

\* the discovery-context route as it would be if it did not forward
\* excludedIds
ContextApiUrlNoExcluded(params) ==
    [seed_id |-> params.gameId,
     limit |-> Get(params, "limit", ProxyDefaultLimit)]

\* discovery-context route: the URL sent to the backend
ContextApiUrl(params) ==
    [seed_id |-> params.gameId,
     limit |-> Get(params, "limit", ProxyDefaultLimit)]
    @@ Opt("excluded_ids", Get(params, "excludedIds", <<>>) # <<>>,
           Get(params, "excludedIds", <<>>))

\* the search route as it would be if it did not forward offset
SearchParamsNoOffset(requestData) ==
    [f \in DOMAIN requestData \ {"offset"} |-> requestData[f]]

\* the search route as it would be if it did not forward limit
SearchParamsNoLimit(requestData) ==
    [f \in DOMAIN requestData \ {"limit"} |-> requestData[f]]

\* search route: the body sent to the backend
SearchParams(requestData) ==
    LET flags == {"use_hybrid", "use_sparse", "use_dense"}
        otherParams == [f \in DOMAIN requestData \ flags |-> requestData[f]]
    IN  otherParams
        @@ Opt("use_hybrid", "use_hybrid" \in DOMAIN requestData,
               Get(requestData, "use_hybrid", TRUE))

\* what a route answers its caller
ProxyError(status) ==
    [ok |-> FALSE, status |-> status, items |-> <<>>,
     total |-> 0, page |-> 0, page_size |-> 0, pages |-> 0]

ProxyData(data) ==
    [ok |-> TRUE, status |-> 200, items |-> data.items,
     total |-> data.total, page |-> data.page, page_size |-> data.page_size,
     pages |-> data.pages]

\* the list routes as they would be without the response.ok test
ListProxyReplyUnchecked(response) ==
    IF response.thrown THEN ProxyError(500)
    ELSE ProxyData(response)

\* discovery-preferences and discovery-context routes: a fetch that throws
\* or a response that is not OK ends in the catch block
ListProxyReply(response) ==
    IF response.thrown \/ ~response.ok THEN ProxyError(500)
    ELSE ProxyData(response)

\* the search route as it would be if it answered an empty page with an error
SearchProxyReplyEmptyIsError(response) ==
    IF response.thrown THEN ProxyError(500)
    ELSE IF ~response.ok THEN ProxyError(response.status)
    ELSE IF response.items = <<>> THEN ProxyError(404)
    ELSE ProxyData(response)

\* search route: a response that is not OK is answered with its status
SearchProxyReply(response) ==
    IF response.thrown THEN ProxyError(500)
    ELSE IF ~response.ok THEN ProxyError(response.status)
    ELSE ProxyData(response)

\* HTTP response of the backend for an answer of the engine
HttpResponse(answer) ==
    [thrown |-> FALSE,
     status |-> IF answer.ok THEN 200
                ELSE IF answer.error = "UnknownItemError" THEN 404
                ELSE IF answer.error = "BackendUnavailable" THEN 503
                ELSE 400]
    @@ answer

FetchThrown == [thrown |-> TRUE, status |-> 0] @@ EngineError("fetch failed", NoGame)

(***************************************************************************)
(* One request at a time from a page through its proxy route to the        *)
(* engine and back: specification SpecApi.  api.store is the item store,   *)
(* api.prev the last seeded empty-preference reply.                        *)
(***************************************************************************)
\* the values of the cache-busting nonce of a route
Nonces == {1, 2}

NoPrev == [seed |-> 0, limit |-> 0, items |-> <<>>]

ApiIdle(store, prev) == [phase |-> "idle", store |-> store, prev |-> prev]

\* a page calls fetch on a route
ApiCall(route, fn, arg, body) ==
    [phase |-> "requested", route |-> route, fn |-> fn, arg |-> arg,
     req |-> body, fetches |-> 0] @@ api

\* Home.fetchRandomGames
ApiHomeRandom(randomSeed) ==
    /\ page = "home" /\ api.phase = "idle"
    /\ LET r == RandomGamesRequest("mount")
       IN  api' = ApiCall("prefs", r.fn, NoGame, PrefsBody(r, randomSeed))
    /\ UNCHANGED uiVars

\* Home.fetchRecommendations(likedGames, dislikedGames)
ApiHomeRecommendations(randomSeed) ==
    /\ page = "home" /\ api.phase = "idle"
    /\ LET r == RecommendationsRequest("like", NoGame, likedGames, dislikedGames)
       IN  api' = ApiCall("prefs", r.fn, NoGame, PrefsBody(r, randomSeed))
    /\ UNCHANGED uiVars

\* DiscoveryGrid.fetchDiscoveryGames
ApiGridDiscovery(randomSeed) ==
    /\ page = "grid" /\ api.phase = "idle"
    /\ LET r == DiscoveryRequest("refresh", NoGame, likedGames, dislikedGames,
                                 NoGame)
       IN  api' = ApiCall("prefs", r.fn, NoGame, PrefsBody(r, randomSeed))
    /\ UNCHANGED uiVars

\* DiscoveryGrid.fetchContextGames(g)
ApiGridContext(g) ==
    /\ page = "grid" /\ api.phase = "idle"
    /\ LET r == ContextRequest("similar", g, g, likedGames, dislikedGames)
       IN  api' = ApiCall("context", r.fn, g, ContextParams(r))
    /\ UNCHANGED uiVars

\* Search.handleSearch: an empty query is not sent
ApiSearch(query) ==
    /\ page = "search" /\ api.phase = "idle"
    /\ Trim(query) # <<>>
    /\ api' = ApiCall("search", "handleSearch", NoGame, SearchBody(query))
    /\ UNCHANGED uiVars

\* the paginated search example: searchGames(p)
ApiGameSearch(query, p) ==
    /\ page = "search" /\ api.phase = "idle"
    /\ Trim(query) # <<>>
    /\ api' = ApiCall("search", "searchGames", p, GameSearchBody(query, p))
    /\ UNCHANGED uiVars

\* any other caller of the search route
ApiSearchRoute(body) ==
    /\ page = "search" /\ api.phase = "idle"
    /\ api' = ApiCall("search", "POST", NoGame, body)
    /\ UNCHANGED uiVars

\* any other client of the discovery-preferences route (page "client")
ApiPrefsRoute(body) ==
    /\ page = "client" /\ api.phase = "idle"
    /\ api' = ApiCall("prefs", "POST", NoGame, body)
    /\ UNCHANGED uiVars

\* any caller of the discover route, the Home of frontend/app/page.tsx
\* (page "frontend") included
ApiDiscoverRoute(body) ==
    /\ page = "frontend" /\ api.phase = "idle"
    /\ api' = ApiCall("discover", "POST", NoGame, body)
    /\ UNCHANGED uiVars

\* a route forwards the request to the backend: one fetch
ApiForward(nonce) ==
    /\ api.phase = "requested"
    /\ api' = [phase |-> "forwarded",
               breq |-> CASE api.route = "prefs" -> PrefsApiRequest(api.req, nonce)
                          [] api.route = "discover" -> DiscoverForward(api.req)
                          [] api.route = "context" -> ContextApiUrl(api.req)
                          [] api.route = "search" -> SearchParams(api.req),
               fetches |-> api.fetches + 1,
               tries |-> 0] @@ api
    /\ UNCHANGED uiVars

\* the engine answers the request
EngineAnswer(fresh) ==
    CASE api.route = "prefs" -> PreferenceDiscover(api.store, api.breq, fresh)
      [] api.route = "discover" ->
            PreferenceDiscover(api.store, DiscoverQuery(api.breq), fresh)
      [] api.route = "context" -> SeedRecommend(api.store, api.breq)
      [] api.route = "search" -> TextSearch(api.store, api.breq)

EngineRespond(fresh) ==
    /\ api.phase = "forwarded"
    /\ api' = [phase |-> "answered", bresp |-> HttpResponse(EngineAnswer(fresh))]
              @@ api
    /\ UNCHANGED uiVars

\* the engine cannot reach the store: one retry, then BackendUnavailable
EngineStoreFail ==
    /\ api.phase = "forwarded"
    /\ api' = IF api.tries = 0
              THEN [api EXCEPT !.tries = 1]
              ELSE [phase |-> "answered", tries |-> 2,
                    bresp |-> HttpResponse(EngineError("BackendUnavailable", NoGame))]
                   @@ api
    /\ UNCHANGED uiVars

\* the route's fetch throws (the backend cannot be reached)
ApiFetchThrows ==
    /\ api.phase = "forwarded" /\ api.tries = 0
    /\ api' = [phase |-> "answered", bresp |-> FetchThrown] @@ api
    /\ UNCHANGED uiVars

\* the route answers the page
ApiListReply ==
    /\ api.phase = "answered" /\ api.route \in {"prefs", "discover", "context"}
    /\ api' = [phase |-> "replied", resp |-> ListProxyReply(api.bresp)] @@ api
    /\ UNCHANGED uiVars

ApiSearchReply ==
    /\ api.phase = "answered" /\ api.route = "search"
    /\ api' = [phase |-> "replied", resp |-> SearchProxyReply(api.bresp)] @@ api
    /\ UNCHANGED uiVars

\* an empty-preference request, as the page sent it
EmptyPreferences(req) ==
    /\ Get(req, "liked_ids", <<>>) = <<>>
    /\ Get(req, "disliked_ids", <<>>) = <<>>

\* the page has its answer; the next request can start
ApiDone ==
    /\ api.phase = "replied"
    /\ api' = ApiIdle(api.store,
                      IF /\ api.route = "prefs" /\ api.resp.ok
                         /\ EmptyPreferences(api.req)
                         /\ "randomize" \in DOMAIN api.req
                      THEN [seed |-> api.req.randomize,
                            limit |-> Get(api.req, "limit", ProxyDefaultLimit),
                            items |-> api.resp.items]
                      ELSE api.prev)
    /\ UNCHANGED uiVars

InitApi ==
    /\ \E store \in Stores : api = ApiIdle(store, NoPrev)
    /\ \E p \in StoredLists :
          \/ /\ page \in {"home", "grid", "frontend", "client"}
             /\ likedGames = p[1] /\ dislikedGames = p[2]
          \/ /\ page = "search"
             /\ likedGames = <<>> /\ dislikedGames = <<>>
    /\ games = {}
    /\ loading = FALSE
    /\ error = FALSE
    /\ discoveryMode = "preferences"
    /\ contextGameId = NoGame
    /\ contextGameName = NoGame
    /\ shownFor = NoShown
    /\ inflight = {}

NextApi ==
    \/ \E randomSeed \in Seeds : ApiHomeRandom(randomSeed)
    \/ \E randomSeed \in Seeds : ApiHomeRecommendations(randomSeed)
    \/ \E randomSeed \in Seeds : ApiGridDiscovery(randomSeed)
    \/ \E g \in GameIds : ApiGridContext(g)
    \/ \E query \in Texts : ApiSearch(query)
    \/ \E query \in Texts : \E p \in 1..MaxPage : ApiGameSearch(query, p)
    \/ \E body \in SearchRouteBodies : ApiSearchRoute(body)
    \/ \E body \in DiscoverRouteBodies : ApiDiscoverRoute(body)
    \/ \E body \in PrefsRouteBodies : ApiPrefsRoute(body)
    \/ \E nonce \in Nonces : ApiForward(nonce)
    \/ \E fresh \in Seeds : EngineRespond(fresh)
    \/ EngineStoreFail
    \/ ApiFetchThrows
    \/ ApiListReply
    \/ ApiSearchReply
    \/ ApiDone

SpecApi == InitApi /\ [][NextApi]_vars

(***************************************************************************)
(* From a hit of the backend to the game a page displays: specification    *)
(* SpecView.  api holds the hit on its way: as the backend sent it, as the *)
(* route passed it on, and the game a page made of it.                     *)
(***************************************************************************)
\* value || default on a number and on a string: 0 and '' are falsy
OrNumber(rec, field, default) ==
    IF field \in DOMAIN rec /\ rec[field] # 0 THEN rec[field] ELSE default

OrString(rec, field, default) ==
    IF field \in DOMAIN rec /\ rec[field] # "" THEN rec[field] ELSE default

\* a property copied as it is: an undefined property stays undefined
Copy(target, rec, field) == Opt(target, field \in DOMAIN rec, Get(rec, field, 0))

\* `${value}` of a property that may be undefined
Template(rec, field) == Get(rec, field, "undefined")

SteamHeaderUrl(appid) ==
    "https://cdn.cloudflare.steamstatic.com/steam/apps/" \o appid \o "/header.jpg"

\* payloads of the store: every optional field present or absent
Payloads ==
    {[name |-> "Game", genres |-> "RPG"]
        @@ Opt("price", pp, price) @@ Opt("short_description", sp, short)
        @@ Opt("detailed_description", dp, "detailed")
        @@ Opt("document", cp, "document")
        @@ Opt("platforms", lp, "windows")
        @@ Opt("steam_appid", ap, "10")
        @@ Opt("header_image", hp, "https://backend/10.jpg") :
        pp \in BOOLEAN, price \in {0, 999},
        sp \in BOOLEAN, short \in {"", "short", "A RPG game"},
        dp \in BOOLEAN, cp \in BOOLEAN, lp \in BOOLEAN, ap \in BOOLEAN,
        hp \in BOOLEAN}

RawHits == {[id |-> 1, score |-> 5, payload |-> pl] : pl \in Payloads}

\* the discovery-preferences and discovery-context routes: header_image is
\* set from steam_appid when there is one
PostProcess(game) ==
    IF "steam_appid" \in DOMAIN game.payload
    THEN [game EXCEPT !.payload =
             [header_image |-> SteamHeaderUrl(game.payload.steam_appid)]
             @@ game.payload]
    ELSE game

\* DiscoveryGrid.processGames, one game
processGames(game) ==
    [id |-> game.id,
     name |-> game.payload.name,
     price |-> OrNumber(game.payload, "price", 0),
     short_description |-> OrString(game.payload, "short_description", ""),
     raw_description |-> OrString(game.payload, "short_description", ""),
     platforms |-> OrString(game.payload, "platforms", ""),
     relevance |-> game.score,
     imageUrl |-> OrString(game.payload, "header_image", "/placeholder.jpg")]
    @@ Copy("detailed_description", game.payload, "detailed_description")
    @@ Copy("steam_appid", game.payload, "steam_appid")

\* Home.processApiGames, one game
processApiGames(apiGame) ==
    [id |-> apiGame.id,
     name |-> apiGame.payload.name,
     short_description |-> OrString(apiGame.payload, "short_description", ""),
     raw_description |-> OrString(apiGame.payload, "document", ""),
     detailed_description |->
         OrString(apiGame.payload, "detailed_description", ""),
     platforms |-> OrString(apiGame.payload, "platforms", ""),
     relevance |-> apiGame.score,
     imageUrl |-> IF "steam_appid" \in DOMAIN apiGame.payload
                  THEN SteamHeaderUrl(apiGame.payload.steam_appid)
                  ELSE "/placeholder-game.jpg"]
    @@ Copy("price", apiGame.payload, "price")

\* Home.processApiGames of frontend/app/page.tsx, one game: a missing or
\* generic short description is replaced by a generated one
processApiGamesFrontend(apiGame) ==
    LET currentDesc == OrString(apiGame.payload, "short_description", "")
        generic == "A " \o apiGame.payload.genres \o " game"
        enhancedDesc ==
            IF currentDesc = "" \/ currentDesc = generic
            THEN apiGame.payload.name \o " is a " \o apiGame.payload.genres
                 \o " game."
            ELSE currentDesc
    IN  [id |-> apiGame.id,
         name |-> apiGame.payload.name,
         short_description |-> enhancedDesc,
         relevance |-> apiGame.score,
         imageUrl |-> SteamHeaderUrl(Template(apiGame.payload, "steam_appid"))]
        @@ Copy("price", apiGame.payload, "price")

\* the backend answers with a hit
ViewBackendHit(hit) ==
    /\ api.phase = "idle"
    /\ api' = [phase |-> "backend", hit |-> hit]
    /\ UNCHANGED uiVars

\* the discovery-preferences or discovery-context route passes the hit on
ViewPostProcess ==
    /\ api.phase = "backend"
    /\ api' = [phase |-> "proxied", raw |-> api.hit, hit |-> PostProcess(api.hit)]
    /\ UNCHANGED uiVars

\* a route without post-processing (discover, random-games) passes it on
ViewPassOn ==
    /\ api.phase = "backend"
    /\ api' = [phase |-> "proxied", raw |-> api.hit, hit |-> api.hit]
    /\ UNCHANGED uiVars

ViewProcessGames ==
    /\ api.phase = "proxied"
    /\ api' = [phase |-> "shown", by |-> "DiscoveryGrid", raw |-> api.raw,
               hit |-> api.hit, game |-> processGames(api.hit)]
    /\ UNCHANGED uiVars

ViewProcessApiGames ==
    /\ api.phase = "proxied"
    /\ api' = [phase |-> "shown", by |-> "Home", raw |-> api.raw,
               hit |-> api.hit, game |-> processApiGames(api.hit)]
    /\ UNCHANGED uiVars

ViewProcessApiGamesFrontend ==
    /\ api.phase = "proxied"
    /\ api' = [phase |-> "shown", by |-> "Home (frontend)", raw |-> api.raw,
               hit |-> api.hit, game |-> processApiGamesFrontend(api.hit)]
    /\ UNCHANGED uiVars

\* the next response
ViewDone ==
    /\ api.phase = "shown"
    /\ api' = NoApi
    /\ UNCHANGED uiVars

InitView ==
    /\ api = NoApi
    /\ page = "home"
    /\ likedGames = <<>> /\ dislikedGames = <<>>
    /\ games = {}
    /\ loading = FALSE
    /\ error = FALSE
    /\ discoveryMode = "preferences"
    /\ contextGameId = NoGame
    /\ contextGameName = NoGame
    /\ shownFor = NoShown
    /\ inflight = {}

NextView ==
    \/ \E hit \in RawHits : ViewBackendHit(hit)
    \/ ViewPostProcess
    \/ ViewPassOn
    \/ ViewProcessGames
    \/ ViewProcessApiGames
    \/ ViewProcessApiGamesFrontend
    \/ ViewDone

SpecView == InitView /\ [][NextView]_vars

(***************************************************************************)
(* The history of Home in local storage (specification SpecStore).  The    *)
(* page's likedGames/dislikedGames are the state of the current render;    *)
(* api holds the browser's side: the storage, the effects React still has  *)
(* to run after the commit, and the state updates queued for the next      *)
(* render.  A list of games is represented by the list of their ids.       *)
(***************************************************************************)
\* JSON.stringify of a list: the text, token by token
JSONstringify(ids) ==
    IF ids = <<>>
    THEN <<"[", "]">>
    ELSE [i \in 1..(2 * Len(ids) + 1) |->
            IF i = 1 THEN "["
            ELSE IF i = 2 * Len(ids) + 1 THEN "]"
            ELSE IF i % 2 = 0 THEN ids[i \div 2] ELSE ","]

\* JSON.parse of such a text
JSONparse(text) ==
    IF Len(text) = 2 THEN <<>> ELSE [i \in 1..((Len(text) - 1) \div 2) |-> text[2 * i]]

\* localStorage.getItem(key) is a text, or null when the key is not stored;
\* a stored text is never the empty string, so it is truthy
HasItem(stored, key) == key \in DOMAIN stored

\* the stored list, the empty list when nothing is stored
StoredHistory(stored, key) ==
    IF HasItem(stored, key) THEN JSONparse(stored[key]) ELSE <<>>

setItem(stored, key, text) == (key :> text) @@ stored

removeItem(stored, key) == [k \in DOMAIN stored \ {key} |-> stored[k]]

\* the effects of Home that touch the history, in the order of their
\* declaration: the mount effect, then the two save effects
MountEffects == <<"load", "saveLiked", "saveDisliked">>

\* setLikedGames(v) / setDislikedGames(v), applied at the next render
SetState(key, v) == [key |-> key, value |-> v]

\* the state of key after the queued updates: the last one wins
RECURSIVE Reduce(_, _, _)
Reduce(queue, key, current) ==
    IF queue = <<>> THEN current
    ELSE Reduce(Tail(queue), key,
                IF Head(queue).key = key THEN Head(queue).value ELSE current)

Updates(queue, key) == \E i \in 1..Len(queue) : queue[i].key = key

\* what local storage can hold when the page is opened
StoredTexts ==
    {Opt("likedGames", lp, JSONstringify(p[1]))
        @@ Opt("dislikedGames", dp, JSONstringify(p[2])) :
        lp \in BOOLEAN, dp \in BOOLEAN, p \in StoredLists}

Closed(stored) ==
    [phase |-> "closed", strict |-> FALSE, runs |-> 0, effects |-> <<>>,
     queue |-> <<>>, stored |-> stored, had |-> [liked |-> <<>>, disliked |-> <<>>],
     touched |-> FALSE, cleared |-> FALSE]

\* effects and renders are done
Settled ==
    /\ api.phase = "mounted" /\ api.effects = <<>> /\ api.queue = <<>>
    /\ api.strict => api.runs = 2

\* Home is mounted: the first render has the initial state, and its effects
\* are pending.  strict: the development build, where reactStrictMode runs
\* the effects of a mount twice.
StoreMount(strict) ==
    /\ api.phase = "closed"
    /\ page' = "home"
    /\ likedGames' = <<>>
    /\ dislikedGames' = <<>>
    /\ loading' = TRUE
    /\ api' = [api EXCEPT !.phase = "mounted", !.strict = strict, !.runs = 1,
                          !.effects = MountEffects, !.queue = <<>>,
                          !.had = [liked |-> StoredHistory(api.stored, "likedGames"),
                                   disliked |-> StoredHistory(api.stored, "dislikedGames")],
                          !.touched = FALSE]
    /\ UNCHANGED <<games, error, discoveryMode, contextGameId, contextGameName,
                   shownFor, inflight>>

\* the mount effect: loadLikedGames(); loadDislikedGames();
\* fetchRandomGames()
StoreLoadEffect ==
    /\ api.phase = "mounted" /\ api.effects # <<>> /\ Head(api.effects) = "load"
    /\ api' = [api EXCEPT
                 !.effects = Tail(@),
                 !.queue = @ \o (IF HasItem(api.stored, "likedGames")
                                 THEN <<SetState("likedGames",
                                                 JSONparse(api.stored.likedGames))>>
                                 ELSE <<>>)
                             \o (IF HasItem(api.stored, "dislikedGames")
                                 THEN <<SetState("dislikedGames",
                                                 JSONparse(api.stored.dislikedGames))>>
                                 ELSE <<>>)]
    /\ loading' = TRUE
    /\ inflight' = inflight \cup {RandomGamesRequest("mount")}
    /\ UNCHANGED <<page, games, likedGames, dislikedGames, error, discoveryMode,
                   contextGameId, contextGameName, shownFor>>

\* useEffect(() => localStorage.setItem('likedGames', ...), [likedGames])
StoreSaveLikedEffect ==
    /\ api.phase = "mounted" /\ api.effects # <<>> /\ Head(api.effects) = "saveLiked"
    /\ api' = [api EXCEPT
                 !.effects = Tail(@),
                 !.stored = setItem(@, "likedGames", JSONstringify(likedGames))]
    /\ UNCHANGED uiVars

\* useEffect(() => localStorage.setItem('dislikedGames', ...), [dislikedGames])
StoreSaveDislikedEffect ==
    /\ api.phase = "mounted" /\ api.effects # <<>>
    /\ Head(api.effects) = "saveDisliked"
    /\ api' = [api EXCEPT
                 !.effects = Tail(@),
                 !.stored = setItem(@, "dislikedGames", JSONstringify(dislikedGames))]
    /\ UNCHANGED uiVars

\* reactStrictMode, development build: the effects of the mount run again
StoreStrictReplay ==
    /\ api.phase = "mounted" /\ api.effects = <<>>
    /\ api.strict /\ api.runs = 1
    /\ api' = [api EXCEPT !.runs = 2, !.effects = MountEffects]
    /\ UNCHANGED uiVars

\* the next render: the queued updates become the state, and the save effect
\* of every list that was set is pending (a list that is set is a new array)
StoreRender ==
    /\ api.phase = "mounted" /\ api.effects = <<>> /\ api.queue # <<>>
    /\ api.strict => api.runs = 2
    /\ likedGames' = Reduce(api.queue, "likedGames", likedGames)
    /\ dislikedGames' = Reduce(api.queue, "dislikedGames", dislikedGames)
    /\ api' = [api EXCEPT
                 !.queue = <<>>,
                 !.effects = (IF Updates(api.queue, "likedGames")
                              THEN <<"saveLiked">> ELSE <<>>)
                             \o (IF Updates(api.queue, "dislikedGames")
                                 THEN <<"saveDisliked">> ELSE <<>>)]
    /\ UNCHANGED <<page, games, loading, error, discoveryMode, contextGameId,
                   contextGameName, shownFor, inflight>>

StoreHandleRemoveFromLiked(g) ==
    /\ Settled /\ Includes(likedGames, g)
    /\ api' = [api EXCEPT !.queue = <<SetState("likedGames", Without(likedGames, g))>>,
                          !.touched = TRUE]
    /\ UNCHANGED uiVars

StoreHandleRemoveFromDisliked(g) ==
    /\ Settled /\ Includes(dislikedGames, g)
    /\ api' = [api EXCEPT
                 !.queue = <<SetState("dislikedGames", Without(dislikedGames, g))>>,
                 !.touched = TRUE]
    /\ UNCHANGED uiVars

\* handleResetHistory as it would be if it only called fetchRandomGames
StoreHandleResetHistoryOnlyRefetches ==
    /\ Settled
    /\ api' = [api EXCEPT !.touched = TRUE, !.cleared = TRUE]
    /\ loading' = TRUE
    /\ inflight' = inflight \cup {RandomGamesRequest("reset")}
    /\ UNCHANGED <<page, games, likedGames, dislikedGames, error, discoveryMode,
                   contextGameId, contextGameName, shownFor>>

\* handleResetHistory; cleared: the history was reset
StoreHandleResetHistory ==
    /\ Settled
    /\ api' = [api EXCEPT
                 !.queue = <<SetState("likedGames", <<>>),
                             SetState("dislikedGames", <<>>)>>,
                 !.stored = removeItem(removeItem(@, "likedGames"), "dislikedGames"),
                 !.touched = TRUE,
                 !.cleared = TRUE]
    /\ loading' = TRUE
    /\ inflight' = inflight \cup {RandomGamesRequest("reset")}
    /\ UNCHANGED <<page, games, likedGames, dislikedGames, error, discoveryMode,
                   contextGameId, contextGameName, shownFor>>

\* the tab is closed or reloaded: the state and the requests are gone, the
\* storage stays
StoreUnload ==
    /\ Settled
    /\ api' = [Closed(api.stored) EXCEPT !.cleared = api.cleared]
    /\ likedGames' = <<>>
    /\ dislikedGames' = <<>>
    /\ loading' = FALSE
    /\ inflight' = {}
    /\ UNCHANGED <<page, games, error, discoveryMode, contextGameId,
                   contextGameName, shownFor>>

InitStore ==
    /\ \E stored \in StoredTexts : api = Closed(stored)
    /\ page = "home"
    /\ likedGames = <<>> /\ dislikedGames = <<>>
    /\ games = {}
    /\ loading = FALSE
    /\ error = FALSE
    /\ discoveryMode = "preferences"
    /\ contextGameId = NoGame
    /\ contextGameName = NoGame
    /\ shownFor = NoShown
    /\ inflight = {}

NextStore ==
    \/ \E strict \in BOOLEAN : StoreMount(strict)
    \/ StoreLoadEffect
    \/ StoreSaveLikedEffect
    \/ StoreSaveDislikedEffect
    \/ StoreStrictReplay
    \/ StoreRender
    \/ \E g \in GameIds : StoreHandleRemoveFromLiked(g)
    \/ \E g \in GameIds : StoreHandleRemoveFromDisliked(g)
    \/ StoreHandleResetHistory
    \/ StoreUnload

SpecStore == InitStore /\ [][NextStore]_vars

(***************************************************************************)
(* The random-games page (specification SpecRandom): DiscoveryPage of      *)
(* frontend/app/random-games/page.tsx.  Its state is in api; filter and    *)
(* searchQuery keep their initial values ('all', ''), so applyFilters      *)
(* leaves filteredGames equal to games.  A list of games is tagged with    *)
(* the number of the fetchRandomGames invocation that received it.         *)
(***************************************************************************)
MaxStarted == 3

\* the options of the limit select
Limits == {6, 12, 24, 36}

InitialLimit == 12

NoGames == [req |-> 0, items |-> {}]

\* selectFeaturedGame(games): one of the games, null for an empty list
selectFeaturedGame(items) == IF items = {} THEN {NoGame} ELSE items

\* fetchRandomGames up to its first await
RandomStart ==
    [api EXCEPT !.loading = TRUE, !.error = FALSE,
                !.started = @ + 1,
                !.inflight = @ \cup {[id |-> api.started + 1, limit |-> api.limit]}]

\* useEffect(() => fetchRandomGames(), [fetchRandomGames]) at the mount
RandomMounted ==
    /\ api.phase = "created"
    /\ api' = [RandomStart EXCEPT !.phase = "mounted"]
    /\ UNCHANGED uiVars

\* the limit select (never disabled): setLimit(l); fetchRandomGames is a new
\* callback, so the effect runs it
RandomSetLimit(l) ==
    /\ api.phase = "mounted" /\ l # api.limit
    /\ api.started < MaxStarted
    /\ api' = [RandomStart EXCEPT
                 !.limit = l,
                 !.inflight = api.inflight \cup {[id |-> api.started + 1, limit |-> l]}]
    /\ UNCHANGED uiVars

\* the Refresh button, disabled while loading
RandomHandleRefresh ==
    /\ api.phase = "mounted" /\ ~api.loading
    /\ api.started < MaxStarted
    /\ api' = RandomStart
    /\ UNCHANGED uiVars

\* fetchRandomGames after its awaits, response OK (a failed detail fetch is
\* caught per game)
RandomOk(r, items, featured) ==
    /\ api.phase = "mounted" /\ r \in api.inflight
    /\ featured \in selectFeaturedGame(items)
    /\ api' = [api EXCEPT
                 !.inflight = @ \ {r},
                 !.ok = @ \cup {r.id},
                 !.featuredGame = [req |-> r.id, game |-> featured],
                 !.games = [req |-> r.id, items |-> items],
                 !.filteredGames = [req |-> r.id, items |-> items],
                 !.loading = FALSE]
    /\ UNCHANGED uiVars

\* fetchRandomGames after its await, request failed
RandomFail(r) ==
    /\ api.phase = "mounted" /\ r \in api.inflight
    /\ api' = [api EXCEPT !.inflight = @ \ {r}, !.error = TRUE, !.loading = FALSE]
    /\ UNCHANGED uiVars

InitRandom ==
    /\ api = [phase |-> "created", limit |-> InitialLimit, loading |-> TRUE,
              error |-> FALSE, started |-> 0, inflight |-> {}, ok |-> {},
              games |-> NoGames, filteredGames |-> NoGames,
              featuredGame |-> [req |-> 0, game |-> NoGame]]
    /\ page = "random-games"
    /\ likedGames = <<>> /\ dislikedGames = <<>>
    /\ games = {}
    /\ loading = FALSE
    /\ error = FALSE
    /\ discoveryMode = "preferences"
    /\ contextGameId = NoGame
    /\ contextGameName = NoGame
    /\ shownFor = NoShown
    /\ inflight = {}

NextRandom ==
    \/ RandomMounted
    \/ \E l \in Limits : RandomSetLimit(l)
    \/ RandomHandleRefresh
    \/ \E r \in api.inflight : \E items \in SUBSET StoreIds :
          \E featured \in GameIds \cup {NoGame} : RandomOk(r, items, featured)
    \/ \E r \in api.inflight : RandomFail(r)

SpecRandom == InitRandom /\ [][NextRandom]_vars

(***************************************************************************)
(* The search page (specification SpecSearch): Search of                   *)
(* frontend/app/search/page.tsx.  Its state is in api; api.store is the    *)
(* item store of the engine, api.searched the query of the last answered   *)
(* request and api.failed whether that request failed.                     *)
(***************************************************************************)
\* stores of one, two and three pages of SearchLimit items
SearchStoreSizes == {0, 3, SearchLimit + 1, 2 * SearchLimit + 1}

SearchStores == {1..n : n \in SearchStoreSizes}

\* what the search route answers for a body
SearchRouteAnswer(store, body) ==
    SearchProxyReply(HttpResponse(TextSearch(store, SearchParams(body))))

\* the Results block, with the pagination controls in it, is rendered
ResultsShown == api.searchPerformed /\ ~api.isLoading

PaginationShown == ResultsShown /\ api.totalPages > 1

\* the text input: setQuery(e.target.value)
SearchPageSetQuery(t) ==
    /\ api.phase = "search" /\ t # api.query
    /\ api' = [api EXCEPT !.query = t]
    /\ UNCHANGED uiVars

\* handleSearch up to its await; the submit button is disabled while loading
SearchPageHandleSearch ==
    /\ api.phase = "search" /\ ~api.isLoading
    /\ Trim(api.query) # <<>>
    /\ api' = [api EXCEPT !.isLoading = TRUE, !.error = FALSE,
                          !.pending = {SearchBody(api.query)}]
    /\ UNCHANGED uiVars

\* handleSearch after its await, response OK
SearchPageOk(body) ==
    /\ api.phase = "search" /\ body \in api.pending
    /\ LET data == SearchRouteAnswer(api.store, body)
       IN  /\ data.ok
           /\ api' = [api EXCEPT
                        !.pending = {},
                        !.results = data.items,
                        !.totalResults = data.total,
                        !.currentPage = IF data.page = 0 THEN 1 ELSE data.page,
                        !.totalPages = data.pages,
                        !.searchPerformed = TRUE,
                        !.searched = body.query,
                        !.failed = FALSE,
                        !.isLoading = FALSE]
    /\ UNCHANGED uiVars

\* handleSearch after its await, network error or response not OK: the
\* catch block and the finally block
SearchPageFail(body) ==
    /\ api.phase = "search" /\ body \in api.pending
    /\ api' = [api EXCEPT
                 !.pending = {},
                 !.error = TRUE,
                 !.results = <<>>,
                 !.totalResults = 0,
                 !.searched = body.query,
                 !.failed = TRUE,
                 !.isLoading = FALSE]
    /\ UNCHANGED uiVars

\* the Previous button: setCurrentPage(prev => Math.max(1, prev - 1))
SearchPagePrevious ==
    /\ api.phase = "search" /\ PaginationShown /\ api.currentPage # 1
    /\ api' = [api EXCEPT
                 !.currentPage = IF @ - 1 < 1 THEN 1 ELSE @ - 1]
    /\ UNCHANGED uiVars

\* the Next button: setCurrentPage(prev => Math.min(totalPages, prev + 1))
SearchPageNext ==
    /\ api.phase = "search" /\ PaginationShown /\ api.currentPage # api.totalPages
    /\ api' = [api EXCEPT
                 !.currentPage = IF @ + 1 > api.totalPages
                                 THEN api.totalPages ELSE @ + 1]
    /\ UNCHANGED uiVars

InitSearch ==
    /\ \E store \in SearchStores :
          api = [phase |-> "search", store |-> store, query |-> <<>>,
                 results |-> <<>>, totalResults |-> 0, isLoading |-> FALSE,
                 error |-> FALSE, searchPerformed |-> FALSE, currentPage |-> 1,
                 totalPages |-> 0, pending |-> {}, searched |-> <<>>,
                 failed |-> FALSE]
    /\ page = "search"
    /\ likedGames = <<>> /\ dislikedGames = <<>>
    /\ games = {}
    /\ loading = FALSE
    /\ error = FALSE
    /\ discoveryMode = "preferences"
    /\ contextGameId = NoGame
    /\ contextGameName = NoGame
    /\ shownFor = NoShown
    /\ inflight = {}

NextSearch ==
    \/ \E t \in Texts : SearchPageSetQuery(t)
    \/ SearchPageHandleSearch
    \/ \E body \in api.pending : SearchPageOk(body)
    \/ \E body \in api.pending : SearchPageFail(body)
    \/ SearchPagePrevious
    \/ SearchPageNext

SpecSearch == InitSearch /\ [][NextSearch]_vars

(***************************************************************************)
(* GameCard and its detail fetch (specifications SpecCard, SpecCardFair).  *)
(* The state of one card is in api.  api.version is the version of the     *)
(* component: in version 1 fetchGameDetails is the function of the render  *)
(* whose hover effect set the timer that calls it (isHovered is true       *)
(* there); in version 2 it is useCallback(..., [game.id]), the function of *)
(* the first render (isHovered is false there).  api.closureHovered is     *)
(* isHovered as the running fetchGameDetails reads it.  The timers fire in *)
(* the order of their delays: the 3 s abort timer and the 2 s stuck-       *)
(* loading timer after the 500 ms delay.                                   *)
(***************************************************************************)
Versions == {1, 2}

\* what the game of the card has as its description: nothing, one of the
\* three fields, or a field of white space only
GameDescriptions == {"none", "short_description", "detailed_description",
                     "raw_description", "blank"}

\* the [game.id] effect: verifiedDescription and descriptionSource of a game
OwnDescription(kind) ==
    CASE kind = "none"  -> [verified |-> "none", source |-> "none"]
      [] kind = "blank" -> [verified |-> "blank", source |-> "short_description from Qdrant"]
      [] OTHER          -> [verified |-> "text", source |-> kind]

\* the descriptions a response of /api/py/game/{id} can carry
ResponseDescriptions == {"short_description", "detailed_description",
                         "document", "none"}

\* the description fetchGameDetails takes from an OK response
ApiDescription(kind) ==
    IF kind = "none"
    THEN [verified |-> "text", source |-> "minimal fallback (no descriptions in API)"]
    ELSE [verified |-> "text", source |-> "API " \o kind]

\* the description after the catch block (why = "after API error") or after
\* the stuck-loading timer (why = "timeout"): one of the game's own fields,
\* else the name and the developers
FallbackDescription(kind, why) ==
    CASE kind = "none"  -> [verified |-> "text", source |-> "minimal fallback (" \o why \o ")"]
      [] kind = "blank" -> [verified |-> "blank", source |-> "short_description (" \o why \o ")"]
      [] OTHER          -> [verified |-> "text", source |-> kind \o " (" \o why \o ")"]

\* setVerifiedDescription and setDescriptionSource
SetDescription(card, d) ==
    [card EXCEPT !.verifiedDescription = d.verified, !.descriptionSource = d.source]

\* the hover effect and the stuck-loading effect have run for a new state:
\* the hover timer is cleared when a dependency changed, and a loading flag
\* that is set although a description exists is reset
CardEffects(card, hoverTimer) ==
    [card EXCEPT
       !.hoverTimer = hoverTimer,
       !.isLoadingDetails = @ /\ card.verifiedDescription = "none"]

\* the state of the component after a step of fetchGameDetails or of a
\* timer: React drops the updates of a card that is unmounted
CardUpdate(card) ==
    IF api.mounted
    THEN card
    ELSE [card EXCEPT
            !.isLoadingDetails = api.isLoadingDetails,
            !.fetchFailed = api.fetchFailed,
            !.fetchAttempted = api.fetchAttempted,
            !.verifiedDescription = api.verifiedDescription,
            !.descriptionSource = api.descriptionSource,
            !.hoverTimer = FALSE]

\* onMouseEnter: setIsHovered(true); the hover effect sets its 300 ms timer
\* unless a description with text exists, the fetch was attempted or
\* Math.random() says skip
CardMouseEnter(skip) ==
    /\ api.phase = "card" /\ api.mounted /\ ~api.isHovered
    /\ api' = CardEffects([api EXCEPT !.isHovered = TRUE],
                          /\ api.verifiedDescription # "text"
                          /\ ~api.fetchAttempted
                          /\ ~skip)
    /\ UNCHANGED uiVars

\* onMouseLeave: setIsHovered(false); the cleanup clears the hover timer
CardMouseLeave ==
    /\ api.phase = "card" /\ api.mounted /\ api.isHovered
    /\ api' = CardEffects([api EXCEPT !.isHovered = FALSE], FALSE)
    /\ UNCHANGED uiVars

\* verifiedDescription as fetchGameDetails reads it when it is called: that
\* of the render of the hover effect (version 1), of the first render
\* (version 2)
ClosureDescription(card) ==
    IF card.version = 1 THEN card.verifiedDescription ELSE "none"

\* the hover timer calls fetchGameDetails(game.id), which returns at its
\* guard or runs up to its first await
CardHoverTimerFires ==
    /\ api.phase = "card" /\ api.hoverTimer /\ api.pc = "idle"
    /\ api' = CardUpdate(
              IF ClosureDescription(api) # "none"
                  THEN CardEffects([api EXCEPT !.isLoadingDetails = FALSE], FALSE)
                  ELSE CardEffects([api EXCEPT
                                      !.isLoadingDetails = TRUE,
                                      !.fetchAttempted = TRUE,
                                      !.abortTimer = TRUE,
                                      !.closureHovered = (api.version = 1),
                                      !.pc = "delay"],
                                   FALSE))
    /\ UNCHANGED uiVars

\* fetchGameDetails after the 500 ms delay as it would be if the cancel path
\* left the loading flag alone
CardDelayElapsedKeepsLoading ==
    /\ api.phase = "card" /\ api.pc = "delay"
    /\ api' = CardUpdate(
              IF ~api.closureHovered
                  THEN [api EXCEPT !.abortTimer = FALSE,
                                   !.hoveredAtDelay = api.isHovered,
                                   !.outcome = "cancelled",
                                   !.pc = "done"]
                  ELSE [api EXCEPT !.sent = @ + 1,
                                   !.hoveredAtDelay = api.isHovered,
                                   !.pc = "fetching"])
    /\ UNCHANGED uiVars

\* fetchGameDetails after the 500 ms delay: if (!isHovered) cancel, else
\* send the request
CardDelayElapsed ==
    /\ api.phase = "card" /\ api.pc = "delay"
    /\ api' = CardUpdate(
              IF ~api.closureHovered
                  THEN [api EXCEPT !.abortTimer = FALSE,
                                   !.isLoadingDetails = FALSE,
                                   !.hoveredAtDelay = api.isHovered,
                                   !.outcome = "cancelled",
                                   !.pc = "done"]
                  ELSE [api EXCEPT !.sent = @ + 1,
                                   !.hoveredAtDelay = api.isHovered,
                                   !.pc = "fetching"])
    /\ UNCHANGED uiVars

\* the response is OK: a description of the response, else the minimal one
CardFetchOk(kind) ==
    /\ api.phase = "card" /\ api.pc = "fetching"
    /\ api' = CardUpdate(
              CardEffects(SetDescription([api EXCEPT
                                                !.abortTimer = FALSE,
                                                !.isLoadingDetails = FALSE,
                                                !.outcome = "ok",
                                                !.pc = "done"],
                                             ApiDescription(kind)),
                              FALSE))
    /\ UNCHANGED uiVars

\* the response is not OK (the abort timer was cleared) or the fetch
\* rejects (it was not): the catch block
CardFetchFails(rejected) ==
    /\ api.phase = "card" /\ api.pc = "fetching"
    /\ api' = CardUpdate(
              CardEffects(SetDescription([api EXCEPT
                                                !.abortTimer = rejected,
                                                !.fetchFailed = TRUE,
                                                !.isLoadingDetails = FALSE,
                                                !.outcome = "failed",
                                                !.pc = "done"],
                                             FallbackDescription(api.game, "after API error")),
                              FALSE))
    /\ UNCHANGED uiVars

\* the 3 s timer: controller.abort(); setIsLoadingDetails(false);
\* setFetchFailed(true)
CardAbortTimerFires ==
    /\ api.phase = "card" /\ api.abortTimer /\ api.pc \in {"fetching", "done"}
    /\ api' = CardUpdate(
              CardEffects([api EXCEPT
                                 !.abortTimer = FALSE,
                                 !.isLoadingDetails = FALSE,
                                 !.fetchFailed = TRUE,
                                 !.outcome = IF api.pc = "fetching" THEN "timeout" ELSE @,
                                 !.pc = IF api.pc = "fetching" THEN "aborted" ELSE @],
                              api.hoverTimer))
    /\ UNCHANGED uiVars

\* the aborted fetch rejects: the catch block
CardAbortCaught ==
    /\ api.phase = "card" /\ api.pc = "aborted"
    /\ api' = CardUpdate(
              CardEffects(SetDescription([api EXCEPT
                                                !.fetchFailed = TRUE,
                                                !.isLoadingDetails = FALSE,
                                                !.pc = "done"],
                                             FallbackDescription(api.game, "after API error")),
                              FALSE))
    /\ UNCHANGED uiVars

\* the 2 s timer of the stuck-loading effect, set while hovered
CardStuckReset ==
    /\ api.phase = "card" /\ api.mounted /\ api.isHovered /\ api.isLoadingDetails
    /\ api.pc \in {"fetching", "aborted", "done"}
    /\ api' = CardEffects(IF api.verifiedDescription = "none"
                          THEN SetDescription([api EXCEPT !.isLoadingDetails = FALSE],
                                              FallbackDescription(api.game, "timeout"))
                          ELSE [api EXCEPT !.isLoadingDetails = FALSE],
                          FALSE)
    /\ UNCHANGED uiVars

\* the card is removed from the page: the cleanups clear the timers of the
\* effects; a running fetchGameDetails and its abort timer go on
CardUnmount ==
    /\ api.phase = "card" /\ api.mounted
    /\ api' = [api EXCEPT !.mounted = FALSE, !.hoverTimer = FALSE]
    /\ UNCHANGED uiVars

\* the card after its first render and the [game.id] effect
InitCard ==
    /\ \E version \in Versions : \E game \in GameDescriptions :
          api = [phase |-> "card", version |-> version, game |-> game,
                 mounted |-> TRUE, isHovered |-> FALSE,
                 verifiedDescription |-> OwnDescription(game).verified,
                 descriptionSource |-> OwnDescription(game).source,
                 isLoadingDetails |-> FALSE, fetchFailed |-> FALSE,
                 fetchAttempted |-> FALSE, hoverTimer |-> FALSE,
                 pc |-> "idle", closureHovered |-> FALSE, abortTimer |-> FALSE,
                 hoveredAtDelay |-> FALSE, outcome |-> "none", sent |-> 0]
    /\ page = "grid"
    /\ likedGames = <<>> /\ dislikedGames = <<>>
    /\ games = {}
    /\ loading = FALSE
    /\ error = FALSE
    /\ discoveryMode = "preferences"
    /\ contextGameId = NoGame
    /\ contextGameName = NoGame
    /\ shownFor = NoShown
    /\ inflight = {}

NextCard ==
    \/ \E skip \in BOOLEAN : CardMouseEnter(skip)
    \/ CardMouseLeave
    \/ CardHoverTimerFires
    \/ CardDelayElapsed
    \/ \E kind \in ResponseDescriptions : CardFetchOk(kind)
    \/ \E rejected \in BOOLEAN : CardFetchFails(rejected)
    \/ CardAbortTimerFires
    \/ CardAbortCaught
    \/ CardStuckReset
    \/ CardUnmount

SpecCard == InitCard /\ [][NextCard]_vars

\* the event loop runs the callback of a timer that is due, and an aborted
\* fetch rejects
SpecCardFair ==
    /\ SpecCard
    /\ WF_vars(CardDelayElapsed)
    /\ WF_vars(CardAbortTimerFires)
    /\ WF_vars(CardAbortCaught)

(***************************************************************************)
(* The game details page (specification SpecDetails).  The state of the    *)
(* page is in api; api.runs are the runs of fetchGameDetails the [gameId]  *)
(* effect has started: one, or two under React's StrictMode.               *)
(***************************************************************************)
DetailsIds == {1, 10}
DetailsRuns == {1, 2}
DetailsSearchLimit == 50
DetailsRecommendLimit == 6

\* g.id.toString()
IdToString(id) == ToString(id)

\* the value of recommendations before setRecommendations
NoRecommendations == [of |-> "", items |-> 0]

\* a run that was not started; answered: the search was answered OK, with
\* the items of the ids in items
NoRun == [pc |-> "none", outcome |-> "none", req |-> <<>>,
          answered |-> FALSE, items |-> {}]

\* catch and finally of fetchGameDetails
DetailsCatch(r, message) ==
    [api EXCEPT !.error = message,
                !.loading = FALSE,
                !.runs[r].pc = "done",
                !.runs[r].outcome = "failed"]

\* the [gameId] effect: every run sets loading and clears error, then
\* requests the game
DetailsMount(strict) ==
    /\ api.phase = "details" /\ \A r \in DetailsRuns : api.runs[r].pc = "none"
    /\ api' = [api EXCEPT
                 !.loading = TRUE,
                 !.error = "",
                 !.runs = [r \in DetailsRuns |->
                             IF r = 1 \/ strict
                             THEN [NoRun EXCEPT
                                     !.pc = "game",
                                     !.req = [url |-> "/api/py/game/" \o api.gameId]]
                             ELSE NoRun]]
    /\ UNCHANGED uiVars

\* the game request is answered OK: setGame, then the recommendations are
\* requested
DetailsGameOk(r) ==
    /\ api.phase = "details" /\ api.runs[r].pc = "game"
    /\ api' = [api EXCEPT
                 !.game = api.gameId,
                 !.runs[r].pc = "recommend",
                 !.runs[r].req = [url |-> "/api/py/recommend/" \o api.gameId,
                                  limit |-> DetailsRecommendLimit]]
    /\ UNCHANGED uiVars

\* the game request is answered not OK: the search by id is requested
DetailsGameNotOk(r) ==
    /\ api.phase = "details" /\ api.runs[r].pc = "game"
    /\ api' = [api EXCEPT
                 !.runs[r].pc = "search",
                 !.runs[r].req = [url |-> "/api/py/search", query |-> api.gameId,
                                  limit |-> DetailsSearchLimit]]
    /\ UNCHANGED uiVars

\* the game request rejects
DetailsGameRejects(r) ==
    /\ api.phase = "details" /\ api.runs[r].pc = "game"
    /\ api' = DetailsCatch(r, "Failed to fetch")
    /\ UNCHANGED uiVars

\* the search is answered OK with items of the ids in items (none when the
\* body has no items): the game is the item whose id is gameId
DetailsSearchOk(r, items) ==
    /\ api.phase = "details" /\ api.runs[r].pc = "search"
    /\ api' = IF \E id \in items : IdToString(id) = api.gameId
              THEN [api EXCEPT
                      !.game = api.gameId,
                      !.runs[r].answered = TRUE,
                      !.runs[r].items = items,
                      !.runs[r].pc = "recommend",
                      !.runs[r].req = [url |-> "/api/py/recommend/" \o api.gameId,
                                       limit |-> DetailsRecommendLimit]]
              ELSE [DetailsCatch(r, "Game not found") EXCEPT
                      !.runs[r].answered = TRUE,
                      !.runs[r].items = items]
    /\ UNCHANGED uiVars

\* the search is answered not OK, or rejects
DetailsSearchFails(r) ==
    /\ api.phase = "details" /\ api.runs[r].pc = "search"
    /\ api' = DetailsCatch(r, "Error fetching game details")
    /\ UNCHANGED uiVars

\* the recommendations are answered OK with n items (0 when the body has no
\* items)
DetailsRecommendOk(r, n) ==
    /\ api.phase = "details" /\ api.runs[r].pc = "recommend"
    /\ api' = [api EXCEPT
                 !.recommendations = [of |-> api.gameId, items |-> n],
                 !.loading = FALSE,
                 !.runs[r].pc = "done",
                 !.runs[r].outcome = "ok"]
    /\ UNCHANGED uiVars

\* the recommendations request as it would be if its failure were swallowed
DetailsRecommendFailsSilently(r) ==
    /\ api.phase = "details" /\ api.runs[r].pc = "recommend"
    /\ api' = [api EXCEPT
                 !.loading = FALSE,
                 !.runs[r].pc = "done",
                 !.runs[r].outcome = "failed"]
    /\ UNCHANGED uiVars

\* the recommendations are answered not OK, or the request rejects
DetailsRecommendFails(r) ==
    /\ api.phase = "details" /\ api.runs[r].pc = "recommend"
    /\ api' = DetailsCatch(r, "Error fetching recommendations")
    /\ UNCHANGED uiVars

\* the page after its first render
InitDetails ==
    /\ \E id \in DetailsIds :
          api = [phase |-> "details", gameId |-> IdToString(id),
                 game |-> "", recommendations |-> NoRecommendations,
                 loading |-> TRUE, error |-> "",
                 runs |-> [r \in DetailsRuns |-> NoRun]]
    /\ page = "details"
    /\ likedGames = <<>> /\ dislikedGames = <<>>
    /\ games = {}
    /\ loading = FALSE
    /\ error = FALSE
    /\ discoveryMode = "preferences"
    /\ contextGameId = NoGame
    /\ contextGameName = NoGame
    /\ shownFor = NoShown
    /\ inflight = {}

NextDetails ==
    \/ \E strict \in BOOLEAN : DetailsMount(strict)
    \/ \E r \in DetailsRuns : DetailsGameOk(r)
    \/ \E r \in DetailsRuns : DetailsGameNotOk(r)
    \/ \E r \in DetailsRuns : DetailsGameRejects(r)
    \/ \E r \in DetailsRuns : \E items \in SUBSET DetailsIds : DetailsSearchOk(r, items)
    \/ \E r \in DetailsRuns : DetailsSearchFails(r)
    \/ \E r \in DetailsRuns : \E n \in {0, DetailsRecommendLimit} : DetailsRecommendOk(r, n)
    \/ \E r \in DetailsRuns : DetailsRecommendFails(r)

SpecDetails == InitDetails /\ [][NextDetails]_vars

(***************************************************************************)
(* Claims about the pages (specification Spec).                            *)
(***************************************************************************)
PreferenceRequests ==
    {r \in inflight : r.fn \in {"fetchRecommendations", "fetchDiscoveryGames"}}

\* C1: every preference-discovery request carries the history current when
\* it is issued: the request started by handleLike(g) has g in liked_ids and
\* the request started by handleDislike(g) has g in disliked_ids.
C1_RequestCarriesCurrentHistory ==
    \A r \in PreferenceRequests :
        /\ r.by = "like" => Includes(r.liked_ids, r.game)
        /\ r.by = "dislike" => Includes(r.disliked_ids, r.game)

\* C2: no game id is in both the liked and the disliked list, and no
\* preference request carries the same id as positive and as negative.
C2_LikedDislikedDisjoint ==
    /\ Range(likedGames) \cap Range(dislikedGames) = {}
    /\ \A r \in PreferenceRequests :
          Range(r.liked_ids) \cap Range(r.disliked_ids) = {}

Served == api.phase \in {"answered", "replied"}
Replied == api.phase = "replied"

\* the engine answered: the backend was reached and so was the store
EngineAnswered ==
    Served /\ ~api.bresp.thrown /\ api.bresp.error # "BackendUnavailable"

ClientLimit == Get(api.req, "limit", SearchDefaultLimit)
ClientOffset == Get(api.req, "offset", 0)

\* C3: a preference request with no liked and no disliked id, as
\* fetchRandomGames sends it through the discovery-preferences route, is
\* answered by the engine with a sample, never with an error, and the sample
\* is non-empty when the store is non-empty.
C3_EmptyPreferenceSample ==
    (/\ EngineAnswered /\ api.route = "prefs"
     /\ api.fn = "fetchRandomGames" \/ EmptyPreferences(api.req))
        => /\ api.breq.positive_ids = <<>> /\ api.breq.negative_ids = <<>>
           /\ api.bresp.ok
           /\ api.store # {} => api.bresp.items # <<>>

C3_Witness ==
    /\ Replied /\ api.fn = "fetchRandomGames" /\ api.store # {}
    /\ likedGames # <<>>
    /\ api.resp.ok /\ api.resp.items # <<>>

C5_PagerSlice ==
    (Replied /\ api.route = "search" /\ api.resp.ok) =>
        LET ranked == TextRanking(api.store, api.req)
            items == api.resp.items
            rest == IF Len(ranked) > ClientOffset
                    THEN Len(ranked) - ClientOffset ELSE 0
        IN  /\ Len(items) <= ClientLimit
            /\ Len(items) = IF rest < ClientLimit THEN rest ELSE ClientLimit
            /\ \A i \in 1..Len(items) : items[i] = ranked[ClientOffset + i]

C5_Witness ==
    /\ Replied /\ api.route = "search" /\ api.resp.ok
    /\ ClientOffset > 0
    /\ Len(api.resp.items) = ClientLimit
    /\ Len(api.resp.items) >= 2
    /\ Len(TextRanking(api.store, api.req)) > ClientOffset + ClientLimit
    /\ api.resp.items[1].id > api.resp.items[2].id

\* C6: a search whose offset is at or past the total is answered with an
\* empty page carrying the true total, not with an error.
C6_PastTheEnd ==
    (/\ Replied /\ api.route = "search" /\ EngineAnswered
     /\ Trim(api.req.query) # <<>> /\ ClientLimit > 0
     /\ ClientOffset >= Cardinality(api.store))
        => /\ api.resp.ok
           /\ api.resp.items = <<>>
           /\ api.resp.total = Cardinality(api.store)

C6_Witness ==
    /\ Replied /\ api.route = "search" /\ api.resp.ok
    /\ ClientLimit = 5 /\ ClientOffset = 12
    /\ Cardinality(api.store) = 10
    /\ api.resp.items = <<>> /\ api.resp.total = 10

\* C7: pages are numbered from 1: when offset is a multiple of limit the
\* page reported is offset/limit + 1 and page_size is limit, so that
\* searchGames(p) is answered with page p.
C7_PageNumbering ==
    (Replied /\ api.route = "search" /\ api.resp.ok) =>
        /\ api.resp.page_size = ClientLimit
        /\ \A k \in 0..MaxOffset :
              ClientOffset = k * ClientLimit => api.resp.page = k + 1
        /\ api.fn = "searchGames" => api.resp.page = api.arg

C7_Witness ==
    /\ Replied /\ api.route = "search" /\ api.resp.ok
    /\ api.fn = "searchGames" /\ api.arg = 2
    /\ api.resp.page = 2 /\ api.resp.page_size = pageSize

\* C8: a search page has at most limit items, with scores that never
\* increase from one rank to the next.
C8_SearchLimitAndOrder ==
    (Replied /\ api.route = "search" /\ api.resp.ok) =>
        /\ Len(api.resp.items) <= ClientLimit
        /\ \A i \in 1..(Len(api.resp.items) - 1) :
              api.resp.items[i].score >= api.resp.items[i + 1].score

C8_Witness ==
    /\ Replied /\ api.route = "search" /\ api.resp.ok
    /\ Len(api.resp.items) = ClientLimit
    /\ Cardinality(api.store) > ClientLimit
    /\ \E i \in 1..(Len(api.resp.items) - 1) :
          api.resp.items[i].score > api.resp.items[i + 1].score

C13_DefaultsFilled ==
    (api.phase = "shown") =>
        LET payload == api.raw.payload
            game == api.game
        IN  /\ "price" \in DOMAIN game
            /\ "price" \notin DOMAIN payload => game.price = 0
            /\ "short_description" \in DOMAIN game
            /\ "short_description" \notin DOMAIN payload
                  => game.short_description = ""
            /\ "detailed_description" \in DOMAIN game
            /\ "detailed_description" \notin DOMAIN payload
                  => game.detailed_description = ""
            /\ "platforms" \in DOMAIN game
            /\ "platforms" \notin DOMAIN payload => game.platforms = ""

\* C14: the image of a displayed game comes from its metadata alone: the
\* Steam CDN header of its steam_appid when it has one, a fixed placeholder
\* when it has none, and never a URL built from an undefined id.
C14_ImageFromMetadata ==
    (api.phase = "shown") =>
        LET payload == api.raw.payload
        IN  /\ api.game.imageUrl # SteamHeaderUrl("undefined")
            /\ api.game.imageUrl =
                  IF "steam_appid" \in DOMAIN payload
                  THEN SteamHeaderUrl(payload.steam_appid)
                  ELSE IF api.by = "DiscoveryGrid" THEN "/placeholder.jpg"
                  ELSE "/placeholder-game.jpg"

(***************************************************************************)
(* More claims about the routes and the engine (specification SpecApi).    *)
(***************************************************************************)
\* C15: Search.handleSearch sends no request for a query that is empty or
\* only whitespace, and the query of a request it sends is trimmed.
C15_EmptyRejectedSentTrimmed ==
    (api.phase # "idle" /\ api.fn = "handleSearch")
        => /\ Trim(api.req.query) # <<>>
           /\ api.req.query = Trim(api.req.query)

\* C16: the request the discovery-preferences route sends to the backend is
\* built from the body it received alone: positive_ids = liked_ids,
\* negative_ids = disliked_ids, excluded_ids = liked_ids followed by
\* disliked_ids, limit 9 when the body has none, randomize as received.
C16_PrefsRequestFromBody ==
    (api.phase \in {"forwarded", "answered", "replied"} /\ api.route = "prefs")
        => LET liked == IF "liked_ids" \in DOMAIN api.req
                        THEN api.req.liked_ids ELSE <<>>
               disliked == IF "disliked_ids" \in DOMAIN api.req
                           THEN api.req.disliked_ids ELSE <<>>
           IN  /\ api.breq.positive_ids = liked
               /\ api.breq.negative_ids = disliked
               /\ Len(api.breq.excluded_ids) = Len(liked) + Len(disliked)
               /\ \A i \in 1..Len(liked) : api.breq.excluded_ids[i] = liked[i]
               /\ \A i \in 1..Len(disliked) :
                     api.breq.excluded_ids[Len(liked) + i] = disliked[i]
               /\ api.breq.limit =
                     IF "limit" \in DOMAIN api.req THEN api.req.limit ELSE 9
               /\ "randomize" \in DOMAIN api.breq <=> "randomize" \in DOMAIN api.req
               /\ "randomize" \in DOMAIN api.req
                     => api.breq.randomize = api.req.randomize

C16_Witness ==
    /\ api.phase = "forwarded" /\ api.route = "prefs"
    /\ "limit" \notin DOMAIN api.req /\ api.breq.limit = 9
    /\ "liked_ids" \in DOMAIN api.req /\ api.req.liked_ids # <<>>
    /\ "disliked_ids" \in DOMAIN api.req /\ api.req.disliked_ids # <<>>
    /\ "randomize" \in DOMAIN api.req

(***************************************************************************)
(* More claims about the pages (specification Spec).                       *)
(***************************************************************************)
\* C18: the request sent by DiscoveryGrid.handleReset (action 'reset')
\* carries an empty liked_ids list and an empty disliked_ids list.
C18_ResetSendsEmptyHistory ==
    \A r \in inflight :
        (r.fn = "fetchDiscoveryGames" /\ r.by = "reset")
            => r.liked_ids = <<>> /\ r.disliked_ids = <<>>

\* C19: in context mode, the context request started by handleLike(g) or
\* handleDislike(g) has g among its excluded ids.
C19_RatedGameExcluded ==
    \A r \in inflight :
        (r.fn = "fetchContextGames" /\ r.by \in {"like", "dislike"})
            => Includes(r.excludedIds, r.game)

\* C20: the liked list and the disliked list never contain an id twice.
C20_NoDuplicates ==
    NoDup(likedGames) /\ NoDup(dislikedGames)

\* C21: the loading flag is true whenever a discovery, recommendation or
\* context request is in flight, the fallback request started by a failed
\* recommendation or context request included.
C21_LoadingWhileInFlight ==
    (\E r \in inflight :
        r.fn \in {"fetchRecommendations", "fetchRandomGames",
                  "fetchDiscoveryGames", "fetchContextGames"})
        => loading

\* C23: in DiscoveryGrid, discoveryMode is 'context' exactly when
\* contextGameId is set, in every state the page reaches.
C23_ContextModeHasGame ==
    page = "grid" => (discoveryMode = "context" <=> contextGameId # NoGame)

C23_Witness ==
    /\ page = "grid"
    /\ discoveryMode = "preferences" /\ contextGameId = NoGame
    /\ \E r \in inflight : r.fn = "fetchDiscoveryGames" /\ r.fallbackOf # NoGame

\* a request started by the failure of another request
IsFallback(r) == r.by = "fallback" \/ r.fallbackOf # NoGame

\* C26: failure handling ends without a retry loop: when a request is
\* answered, at most one request is started, only by the failure of a
\* recommendation or context request that is not itself a fallback, and
\* the answer to a fallback request starts no request.
C26_OneFallbackNoRetry ==
    [][(~loading' /\ inflight' # inflight) =>
          LET gone == inflight \ inflight'
              new == inflight' \ inflight
          IN  /\ Cardinality(new) <= 1
              /\ \A n \in new :
                    /\ IsFallback(n)
                    /\ \E r \in gone :
                          /\ r.fn \in {"fetchRecommendations", "fetchContextGames"}
                          /\ ~IsFallback(r)
              /\ (\E r \in gone : IsFallback(r)) => new = {}]_vars

C26_Witness ==
    /\ page = "home" /\ ~loading
    /\ Cardinality({r \in inflight : IsFallback(r)}) = 1
    /\ \A r \in inflight : r.fn # "fetchRecommendations"

(***************************************************************************)
(* Claims about the stored history (specification SpecStore).              *)
(***************************************************************************)
\* C17: the history round-trips through local storage: when Home has mounted
\* and its effects have settled, and no handler has changed the history
\* since, the liked and disliked lists of the state are the lists the
\* storage held when the page was opened, and the storage still holds them.
C17_HistoryRoundTrips ==
    (Settled /\ ~api.touched)
        => /\ likedGames = api.had.liked
           /\ dislikedGames = api.had.disliked
           /\ StoredHistory(api.stored, "likedGames") = api.had.liked
           /\ StoredHistory(api.stored, "dislikedGames") = api.had.disliked

\* C30: after handleResetHistory, once the effects have run, the stored
\* likedGames and dislikedGames denote empty lists (absent or '[]'), the
\* request it issued carries empty liked_ids and disliked_ids, and a later
\* load of the page starts with an empty history.
C30_ResetClearsHistory ==
    api.cleared =>
        /\ (Settled \/ api.phase = "closed") =>
              /\ StoredHistory(api.stored, "likedGames") = <<>>
              /\ StoredHistory(api.stored, "dislikedGames") = <<>>
              /\ \A key \in DOMAIN api.stored : api.stored[key] = <<"[", "]">>
        /\ Settled => likedGames = <<>> /\ dislikedGames = <<>>
        /\ (api.phase = "mounted" /\ ~api.touched) =>
              api.had = [liked |-> <<>>, disliked |-> <<>>]
        /\ \A r \in inflight : r.by = "reset" =>
              r.liked_ids = <<>> /\ r.disliked_ids = <<>>
        /\ (api.phase = "mounted" /\ api.touched) =>
              \E r \in inflight : r.by = "reset"

C30_Witness ==
    /\ api.cleared /\ Settled /\ ~api.touched
    /\ api.stored = ("likedGames" :> <<"[", "]">>) @@ ("dislikedGames" :> <<"[", "]">>)
    /\ likedGames = <<>> /\ dislikedGames = <<>>

(***************************************************************************)
(* Claims about the random-games page (specification SpecRandom).          *)
(***************************************************************************)
\* C22: when every fetchRandomGames invocation has been answered and the
\* most recently started one succeeded, games, filteredGames and
\* featuredGame are those of the most recently started invocation.
C22_LatestRequestShown ==
    (/\ api.phase = "mounted" /\ api.inflight = {}
     /\ api.started \in api.ok)
        => /\ api.games.req = api.started
           /\ api.filteredGames.req = api.started
           /\ api.featuredGame.req = api.started

(***************************************************************************)
(* Claims about the search page (specification SpecSearch).                *)
(***************************************************************************)
\* C24: the results displayed are the results of the page number shown:
\* the items at offset (currentPage - 1) * page_size of the ranking of the
\* query searched, and currentPage stays within 1 .. totalPages.
C24_ResultsOfShownPage ==
    (ResultsShown /\ ~api.failed /\ api.totalPages >= 1)
        => /\ api.currentPage \in 1..api.totalPages
           /\ api.results =
                 SearchRouteAnswer(api.store,
                     [query |-> api.searched, limit |-> SearchLimit,
                      offset |-> (api.currentPage - 1) * SearchLimit]).items

\* C25: after a failed search the page shows nothing of an earlier search:
\* no results, a total of 0, no pagination controls, an error, not loading.
C25_FailedSearchShowsNothing ==
    (api.failed /\ api.pending = {})
        => /\ api.results = <<>>
           /\ api.totalResults = 0
           /\ ~PaginationShown
           /\ api.error
           /\ ~api.isLoading

(***************************************************************************)
(* Claims about GameCard (specifications SpecCardFair, SpecCard).          *)
(***************************************************************************)
\* C27: a detail fetch never hangs: whenever isLoadingDetails of a mounted
\* card is true it becomes false again, and once an invocation has ended by
\* a timeout or a failure, fetchFailed is true and a fallback description
\* is set.
C27_DetailFetchEnds ==
    /\ []((api.mounted /\ api.pc = "done" /\ api.outcome \in {"failed", "timeout"})
            => api.fetchFailed /\ api.verifiedDescription # "none")
    /\ ((api.mounted /\ api.isLoadingDetails)
            ~> (~api.mounted \/ ~api.isLoadingDetails))

C27_Witness ==
    /\ api.mounted /\ api.pc = "done" /\ api.outcome = "timeout"
    /\ api.fetchFailed
    /\ api.descriptionSource = "minimal fallback (after API error)"
    /\ ~api.isLoadingDetails

\* C28: after its 500 ms delay fetchGameDetails cancels only when the user
\* is not hovering the card at that moment, sends the request when the user
\* is hovering, and sends at most one request.
C28_CancelOnlyWhenNotHovered ==
    /\ api.outcome = "cancelled" => ~api.hoveredAtDelay
    /\ (api.pc \in {"fetching", "aborted", "done"} /\ api.hoveredAtDelay)
          => api.sent = 1
    /\ api.sent <= 1

(***************************************************************************)
(* Claims about the game details page (specification SpecDetails).         *)
(***************************************************************************)
\* the run r of fetchGameDetails ends in this step
DetailsRunEnds(r) == api.runs[r].pc # "done" /\ api'.runs[r].pc = "done"

\* C29: every run of fetchGameDetails ends with loading = false and either
\* error set, or error clear and the game set with its recommendations; a
\* game request answered not OK is followed by the search by id, which ends
\* in 'Game not found' unless an item with exactly that id is returned; a
\* failed recommendations request ends with error set and the game loaded.
C29_RunEndsInErrorOrGame ==
    [][\A r \in DetailsRuns :
         /\ DetailsRunEnds(r) =>
              /\ ~api'.loading
              /\ \/ api'.error # ""
                 \/ /\ api'.game = api.gameId
                    /\ api'.recommendations.of = api.gameId
              /\ api'.runs[r].outcome = "failed" => api'.error # ""
              /\ api'.runs[r].outcome = "ok" =>
                    /\ api'.game = api.gameId
                    /\ api'.recommendations.of = api.gameId
         /\ (DetailsRunEnds(r) /\ api.runs[r].pc = "search" /\ api'.runs[r].answered)
              => /\ api'.error = "Game not found"
                 /\ \A id \in api'.runs[r].items : IdToString(id) # api.gameId
         /\ (api.runs[r].pc = "search" /\ api'.runs[r].pc = "recommend")
              => \E id \in api'.runs[r].items : IdToString(id) = api.gameId
         /\ (api.runs[r].pc = "game" /\ api'.runs[r].pc \notin {"game", "recommend", "done"})
              => /\ api'.runs[r].pc = "search"
                 /\ api'.runs[r].req = [url |-> "/api/py/search", query |-> api.gameId,
                                        limit |-> DetailsSearchLimit]
         /\ (DetailsRunEnds(r) /\ api.runs[r].pc = "recommend" /\ api'.runs[r].outcome = "failed")
              => api'.error # "" /\ api'.game = api.gameId]_vars

C29_Witness ==
    /\ api.phase = "details" /\ ~api.loading
    /\ api.game = api.gameId /\ api.error = "Error fetching recommendations"
    /\ \E r \in DetailsRuns : api.runs[r].pc = "done" /\ api.runs[r].items # {}
    /\ \A r \in DetailsRuns : api.runs[r].pc \in {"none", "done"}

====
